---- MODULE Spec2Model ----
(***************************************************************************)
(* Model of src/collections/CollectionManager.ts (src/unnamed/part_005):   *)
(* the singleton's initialization life cycle, the load pass                *)
(* (updateCollections -> loadCollections -> createCategories) and the      *)
(* two-tier cache (local Map + optional Redis).                            *)
(*                                                                         *)
(* Two specifications share the state:                                     *)
(*   Spec       the manager's life cycle: the constructor's task, callers  *)
(*              of waitForInitialization and of updateCollections;         *)
(*   CacheSpec  getCacheValue / setCacheValue / clearCacheValue applied to *)
(*              cache groups that start almost full.                       *)
(* The runtime is single-threaded and cooperative: what runs between two   *)
(* awaits of the source is one action.                                     *)
(***************************************************************************)
EXTENDS Integers, Sequences, FiniteSets, TLC

\* ------------------------------------------------------------------------
\* Program constants
\* ------------------------------------------------------------------------
CACHE_TTL == 300000

REDIS_TTL == 300

MAX_CACHE_SIZE == 100

MAX_RETRIES == 3

\* ------------------------------------------------------------------------
\* Bounds of the model
\* ------------------------------------------------------------------------
\* callers of waitForInitialization
NumWaiters == 2

\* calls of updateCollections made from outside the manager
MaxUpdateCalls == 1

\* changes the environment may make (source edits, faults, repairs,
\* writes of another instance to tier 2)
MaxEnvSteps == 1

\* clock advances
MaxTicks == 2

\* keys beyond the prefilled ones that cache operations may use
NumNewKeys == 2

\* cache operations started in CacheSpec
MaxCacheOps == 2

\* ------------------------------------------------------------------------
\* Sets
\* ------------------------------------------------------------------------
\* `null`
NULL == 0

\* definition sources known to the source provider, and the versions of
\* their content (0: the source does not exist)
Sources == {1, 2}

Versions == {1, 2}

\* process 0 is the constructor's initialization task, the others are
\* outside callers of updateCollections
InitProc == 0

Updaters == {1}

Procs == {InitProc} \cup Updaters

Waiters == 1..NumWaiters

CacheTasks == {1, 2}

Values == {1, 2}

Groups == {"collectionCache", "categoryCache", "fileHashCache"}

\* CacheSpec starts with collectionCache full
Prefill == MAX_CACHE_SIZE

\* the group every getCacheValue / setCacheValue call of the source passes
OpGroups == {"collectionCache"}

NewKeys == (Prefill + 1)..(Prefill + NumNewKeys)

OpKeys == {1} \cup NewKeys

\* the cache key of lazyLoadCollection, `collection_${name}`: the prefix
\* keeps it apart from the file-path keys of loadCollections
LazyPrefix == 1000

LazyKey(n) == LazyPrefix + n

LazyKeys == {LazyKey(n) : n \in Sources}

\* the keys whose tier-2 entries the model follows
TierKeys == Sources \cup OpKeys \cup LazyKeys

Faults == {"none", "widgets", "provider", "redis"}

\* Date.now() advances by one of these amounts
TickSteps == {CACHE_TTL \div 2, CACHE_TTL}

\* callers of ensureWidgetsInitialized(): the constructor's task (0) and
\* processModule calls
NumModuleCalls == 2

EnsureCallers == 0..NumModuleCalls

VARIABLES
    \* runtime environment ($app/environment, redis module)
    browser, dev, redisEnabled,
    \* Date.now()
    now, ticks,
    \* environment: the fault that is present, the definition sources, the
    \* number of changes made
    fault, sources, envSteps,
    \* module-level widget state
    widgetsInitialized, widgetsInitPromise,
    \* CollectionManager fields
    initialized, initializationPromise, loadedCollections, loadedCategories,
    cache,
    \* tier 2 (Redis): per-key entries, 'cms:all_collections', 'cms:categories'
    redisKV, redisAll, redisCats,
    \* downstream stores
    stores,
    \* constructor task and updateCollections calls in flight
    ipc, upc, urecompile, ucols, ucats, upass, updCalls,
    \* callers of waitForInitialization
    wpc, wAfterRepair,
    \* cache operations in flight, last completed operation
    ctask, last, cacheOps,
    \* history: load passes begun, load passes begun by initialize(),
    \* setCacheValue origin of an entry, insertion history of a group
    passCount, initPasses, origin, inserted, pure,
    \* the definition sources as the loader meets them: does source k
    \* compile, how many attempts at reading it fail before one succeeds, the
    \* same for the structure API; the outcome of the last loadCollections()
    compiles, readFailures, apiFailures, loadOut,
    \* one tree-construction pass: the definitions handed to it and the
    \* categoryStructure it built
    treeIn, structure,
    \* a caller that refreshes twice: its position, the getCollectionData()
    \* it saw after each call; does the schema of source k declare an id
    rpc, snaps, declaresId,
    \* lazyLoadCollection: collectionAccessCount, the outcome of the last
    \* call, the source reads its calls made, the calls made
    collectionAccessCount, lazyOut, reads, lazyCalls,
    \* one processCollectionFile call: the `fields` of the evaluated schema,
    \* does dbAdapter.createCollectionModel throw, the call's outcome
    fieldsIn, modelFails, fieldsOut,
    \* processModule: what the text of source k does when it is evaluated,
    \* the state of the process outside the manager, the evaluations made
    accesses, ambient, evals,
    \* ensureWidgetsInitialized: the position of each caller, the number of
    \* initializeWidgets() invocations
    epc, initWidgetsCalls,
    \* retryOperation: what each invocation of the operation does, the budget
    \* passed, the state of the call
    retryOps, maxRetries, retry,
    \* categoryConfig: the paths that have an entry
    overridden,
    \* one evaluated schema on its way to a definition: the compile path, the
    \* file name and the schema; the definition made of it
    normIn, normOut,
    \* the change another instance made to a per-key entry of tier 2
    other

envVars == <<browser, dev, redisEnabled, now, ticks, fault, sources, envSteps>>

widgetVars == <<widgetsInitialized, widgetsInitPromise>>

managerVars == <<initialized, initializationPromise, loadedCollections, loadedCategories>>

tierVars == <<cache, redisKV, redisAll, redisCats>>

taskVars == <<ipc, upc, urecompile, ucols, ucats, upass, updCalls>>

waitVars == <<wpc, wAfterRepair>>

cacheTaskVars == <<ctask, last, cacheOps>>

histVars == <<passCount, initPasses, origin, inserted, pure>>

loaderVars == <<compiles, readFailures, apiFailures, loadOut>>

treeVars == <<treeIn, structure>>

refreshVars == <<rpc, snaps, declaresId>>

lazyVars == <<collectionAccessCount, lazyOut, reads, lazyCalls>>

fieldVars == <<fieldsIn, modelFails, fieldsOut>>

evalVars == <<accesses, ambient, evals>>

ensureVars == <<epc, initWidgetsCalls>>

retryVars == <<retryOps, maxRetries, retry>>

configVars == <<overridden>>

normVars == <<normIn, normOut>>

otherVars == <<other>>

lateVars == <<ensureVars, retryVars, configVars, normVars, otherVars>>

buildVars == <<loaderVars, treeVars, refreshVars, lazyVars, fieldVars, evalVars, lateVars>>

vars == <<envVars, widgetVars, managerVars, tierVars, stores, taskVars, waitVars,
          cacheTaskVars, histVars, buildVars>>

\* ------------------------------------------------------------------------
\* Tier availability: `!browser && isRedisEnabled()`
\* ------------------------------------------------------------------------
Tier2 == ~browser /\ redisEnabled

\* tier 2 is enabled but unreachable: getCache, setCache and clearCache reject
TierFails == Tier2 /\ fault = "redis"

\* ------------------------------------------------------------------------
\* The local tier: a JavaScript Map, i.e. entries in insertion order
\* ------------------------------------------------------------------------
Entry(k, v, t) == [key |-> k, value |-> v, timestamp |-> t]

Has(c, k) == \E i \in 1..Len(c) : c[i].key = k

IndexOf(c, k) == CHOOSE i \in 1..Len(c) : c[i].key = k

MapGet(c, k) == c[IndexOf(c, k)]

\* Map.prototype.set: an existing key keeps its place, a new key goes last
MapSet(c, k, e) == IF Has(c, k) THEN [c EXCEPT ![IndexOf(c, k)] = e] ELSE Append(c, e)

MapDelete(c, k) == SelectSeq(c, LAMBDA e : e.key # k)

KeysOf(c) == [i \in 1..Len(c) |-> c[i].key]

KeySet(c) == {c[i].key : i \in 1..Len(c)}

\* the entry a stable sort by ascending timestamp puts first
OldestIndex(c) ==
    CHOOSE i \in 1..Len(c) :
        /\ \A j \in 1..Len(c) : c[i].timestamp <= c[j].timestamp
        /\ \A j \in 1..(i - 1) : c[j].timestamp # c[i].timestamp

NewestIndex_Mut(c) ==
    CHOOSE i \in 1..Len(c) :
        /\ \A j \in 1..Len(c) : c[i].timestamp >= c[j].timestamp
        /\ \A j \in (i + 1)..Len(c) : c[j].timestamp # c[i].timestamp

RemoveAt(c, i) == SubSeq(c, 1, i - 1) \o SubSeq(c, i + 1, Len(c))

\* entries.sort((a, b) => a[1].timestamp - b[1].timestamp).slice(0, n) and
\* the deletion of those n entries: the sort is stable, so removing the
\* first entry of least timestamp n times removes the same entries
RECURSIVE RemoveOldest(_, _)
RemoveOldest(c, n) == IF n <= 0 THEN c ELSE RemoveOldest(RemoveAt(c, OldestIndex(c)), n - 1)

RECURSIVE RemoveNewest_Mut(_, _)
RemoveNewest_Mut(c, n) ==
    IF n <= 0 THEN c ELSE RemoveNewest_Mut(RemoveAt(c, NewestIndex_Mut(c)), n - 1)

\* a trimCache that sorts the wrong way round
TrimCache_Mut(c) ==
    IF Len(c) > MAX_CACHE_SIZE THEN RemoveNewest_Mut(c, Len(c) - MAX_CACHE_SIZE) ELSE c

TrimCache(c) ==
    IF Len(c) > MAX_CACHE_SIZE THEN RemoveOldest(c, Len(c) - MAX_CACHE_SIZE) ELSE c

\* the memory half of setCacheValue: cache.set(...) then this.trimCache(cache)
SetLocal(c, k, v) == TrimCache(MapSet(c, k, Entry(k, v, now)))

\* ------------------------------------------------------------------------
\* Tier 2 (the redis module): values with an expiry time
\* ------------------------------------------------------------------------
RedisEntry(v, ttlSeconds) == [value |-> v, expiresAt |-> now + ttlSeconds * 1000]

NoEntry == [value |-> NULL, expiresAt |-> 0]

\* getCache: the value, or null when the key is absent or has expired
RedisRead(e) == IF e.value # NULL /\ now < e.expiresAt THEN e.value ELSE NULL

\* ------------------------------------------------------------------------
\* Definitions (Schema) and the source provider
\* ------------------------------------------------------------------------
\* a compiled definition: its name comes from the source's file name, ver
\* stands for the content it was compiled from
Def(k, v) == [name |-> k, ver |-> v]

\* schema.path of the definition compiled from source k
PathOf(k) == IF k = 1 THEN <<"a", "x">> ELSE <<"b">>

\* the definitions one scan of the sources yields, in enumeration order
RECURSIVE ScanFrom(_)
ScanFrom(k) ==
    IF k \notin Sources THEN <<>>
    ELSE (IF sources[k] = 0 THEN <<>> ELSE <<Def(k, sources[k])>>) \o ScanFrom(k + 1)

ScanSources == ScanFrom(1)

\* `for (...) { collections.push(x); await this.setCacheValue(key, x, this.collectionCache) }`,
\* memory tier
RECURSIVE SetAllLocal(_, _)
SetAllLocal(c, list) ==
    IF list = <<>> THEN c
    ELSE SetAllLocal(SetLocal(c, Head(list).name, Head(list).ver), Tail(list))

\* the same loop, tier 2
SetAllRedis(kv, list) ==
    [k \in TierKeys |->
        IF \E i \in 1..Len(list) : list[i].name = k
        THEN RedisEntry((CHOOSE d \in {list[i] : i \in 1..Len(list)} : d.name = k).ver, REDIS_TTL)
        ELSE kv[k]]

\* a list stored under one tier-2 key ('cms:all_collections', 'cms:categories')
RedisList(v) == [present |-> TRUE, value |-> v, expiresAt |-> now + REDIS_TTL * 1000]

NoList == [present |-> FALSE, value |-> <<>>, expiresAt |-> 0]

RedisListHit(e) == e.present /\ now < e.expiresAt

\* ------------------------------------------------------------------------
\* createCategories: the category structure, keyed by path prefix
\* ------------------------------------------------------------------------
\* Array.from(this.collectionCache.values()).map((entry) => entry.value)
CollectionsList(c) == [i \in 1..Len(c) |-> Def(c[i].key, c[i].value)]

Prefix(p, i) == SubSeq(p, 1, i)

InSeq(s, x) == \E i \in 1..Len(s) : s[i] = x

\* the nodes the walk over one path creates (`if (!currentLevel[part])`)
RECURSIVE AddPrefixes(_, _, _)
AddPrefixes(acc, p, i) ==
    IF i > Len(p) THEN acc
    ELSE AddPrefixes(IF InSeq(acc, Prefix(p, i)) THEN acc ELSE Append(acc, Prefix(p, i)), p, i + 1)

\* the nodes of categoryStructure in creation order
RECURSIVE CreatedNodes(_, _)
CreatedNodes(list, acc) ==
    IF list = <<>> THEN acc
    ELSE CreatedNodes(Tail(list), AddPrefixes(acc, PathOf(Head(list).name), 1))

\* a definition's path ends at q: the node is flagged isCollection
IsCollectionNode(list, q) == \E i \in 1..Len(list) : PathOf(list[i].name) = q

\* processCategory keeps a node only if neither it nor an ancestor is a
\* collection node; such a node never holds definitions
Grouping(list, q) == \A i \in 1..Len(q) : ~IsCollectionNode(list, Prefix(q, i))

CategoryNode(q) ==
    [path |-> q, name |-> q[Len(q)],
     icon |-> IF Len(q) = 1 THEN "bi:collection" ELSE "bi:folder",
     collections |-> <<>>]

CategoryArray(list) ==
    LET nodes == SelectSeq(CreatedNodes(list, <<>>), LAMBDA q : Grouping(list, q))
    IN  [i \in 1..Len(nodes) |-> CategoryNode(nodes[i])]

\* keys of the top-level entries of categoryStructure
Segments == <<"a", "b">>

CatKey(seg) == CHOOSE i \in 1..Len(Segments) : Segments[i] = seg

\* `this.categoryCache.clear(); Object.entries(categoryStructure).forEach(... set ...)`
CategoryCacheOf(list) ==
    LET tops == SelectSeq(CreatedNodes(list, <<>>), LAMBDA q : Len(q) = 1)
    IN  [i \in 1..Len(tops) |-> Entry(CatKey(tops[i][1]), 1, now)]

\* a published list with the load pass that assigned it (pass 0: the
\* initial empty list)
Published(pass, list) == [pass |-> pass, list |-> list]

\* history kept for the claims: origin[g][k] is the value and time of the
\* last setCacheValue of k in g; inserted[g] lists the keys setCacheValue
\* inserted into g, pure[g] holds while g was changed by nothing but
\* insertions of new keys
Origin(v, t) == [value |-> v, at |-> t]

NoOrigin == [value |-> NULL, at |-> 0]

\* ------------------------------------------------------------------------
\* Initial state: the module has been loaded and the singleton constructed
\* (`export const collectionManager = CollectionManager.getInstance()`)
\* ------------------------------------------------------------------------
\* a task that runs no cache operation
IdleTask == [pc |-> "idle", group |-> "collectionCache", key |-> 1, value |-> NULL,
             tier2 |-> NULL, at |-> 0, rejected |-> FALSE]

\* every source compiles and can be read at once, no loadCollections() has
\* been observed
LoaderIdle ==
    /\ compiles = [k \in Sources |-> TRUE]
    /\ readFailures = [k \in Sources |-> 0]
    /\ apiFailures = 0
    /\ loadOut = [status |-> "none", list |-> <<>>]

\* no tree-construction pass has been observed
NotBuilt == [built |-> FALSE, nodes |-> <<>>, array |-> <<>>]

TreeIdle ==
    /\ treeIn = <<>>
    /\ structure = NotBuilt

\* no refreshing caller
RefreshIdle ==
    /\ rpc = "idle"
    /\ snaps = <<>>
    /\ declaresId = [k \in Sources |-> TRUE]

\* no processCollectionFile call has been observed
NoFieldsOut == [status |-> "none", name |-> NULL, def |-> <<>>]

FieldIdle ==
    /\ fieldsIn = <<>>
    /\ modelFails = FALSE
    /\ fieldsOut = NoFieldsOut

\* every source text only uses the `widgets` it is passed, nothing has been
\* evaluated
EvalIdle ==
    /\ accesses = [k \in Sources |-> "widgets"]
    /\ ambient = 0
    /\ evals = <<>>

\* `cols.forEach((col) => { if (col.name) collectionRecord[col.name] = col })`:
\* a later definition replaces an earlier one of the same name
CollectionRecord(cols) ==
    [n \in {cols[i].name : i \in 1..Len(cols)} |->
        cols[CHOOSE i \in 1..Len(cols) :
                 cols[i].name = n /\ \A j \in (i + 1)..Len(cols) : cols[j].name # n]]

\* `categoryRecord[cat.name] = { id, name, icon, subcategories: {} }` for
\* the top-level entries of categoryArray
CategoryRecord(cats) ==
    [n \in {cats[i].name : i \in {j \in 1..Len(cats) : Len(cats[j].path) = 1}} |->
        LET cat == cats[CHOOSE i \in 1..Len(cats) : Len(cats[i].path) = 1 /\ cats[i].name = n]
        IN  [id |-> IF "id" \in DOMAIN cat THEN cat.id ELSE NULL,
             name |-> cat.name, icon |-> cat.icon]]

\* `unAssigned.set(cols.filter((x) => !Object.values(collectionRecord).includes(x)))`
UnAssigned(cols) ==
    SelectSeq(cols, LAMBDA x : CollectionRecord(cols)[x.name] # x)

\* the selection stores: `collection`, `collectionValue`, `mode`
NoSelection == [collection |-> NULL, collectionValue |-> NULL, mode |-> "view"]

\* the stores before the first publication
EmptyStores ==
    [collections |-> <<>>, categories |-> <<>>, unAssigned |-> <<>>,
     selection |-> NoSelection]

\* a publication that leaves the selection alone
SetStores_Mut(cols, cats) ==
    [collections |-> CollectionRecord(cols), categories |-> CategoryRecord(cats),
     unAssigned |-> UnAssigned(cols), selection |-> stores.selection]

\* `categories.set(...); collections.set(...); unAssigned.set(...);
\* collection.set({}); collectionValue.set({}); mode.set('view')`
SetStores(cols, cats) ==
    [collections |-> CollectionRecord(cols), categories |-> CategoryRecord(cats),
     unAssigned |-> UnAssigned(cols), selection |-> NoSelection]

\* no lazyLoadCollection call has been made
NoLazyOut == [status |-> "none", name |-> NULL, ret |-> NULL]

\* no retryOperation call has been observed
NoRetry == [pc |-> "idle", i |-> 0, calls |-> 0, waits |-> <<>>, lastError |-> NULL,
            ret |-> NULL]

RetryIdle ==
    /\ retryOps = [j \in 1..MAX_RETRIES |-> 0]
    /\ maxRetries = MAX_RETRIES
    /\ retry = NoRetry

\* categoryConfig has no entry
ConfigIdle == overridden = {}

\* a schema that declares nothing, in the file "Posts"
BareSchema == [id |-> NULL, name |-> "", label |-> "", slug |-> "", icon |-> "",
               description |-> "", fields |-> <<>>, hasFields |-> FALSE]

\* no schema has been processed
NormIdle ==
    /\ normIn = [mode |-> "file", fileName |-> "Posts", schema |-> BareSchema]
    /\ normOut = <<>>

\* no other instance has changed a tier-2 key
NoOther == [kind |-> "none", key |-> NULL, value |-> NULL, at |-> 0, expiresAt |-> 0]

OtherIdle == other = NoOther

\* the environment at time 0, no call in progress
BaseInit ==
    /\ epc = [p \in EnsureCallers |-> "idle"]
    /\ initWidgetsCalls = 0
    /\ collectionAccessCount = [k \in Sources |-> 0]
    /\ lazyOut = NoLazyOut
    /\ reads = [k \in Sources |-> 0]
    /\ lazyCalls = 0
    /\ browser \in BOOLEAN
    /\ redisEnabled \in BOOLEAN
    /\ now = 0
    /\ ticks = 0
    /\ envSteps = 0
    /\ stores = EmptyStores
    /\ upc = [p \in Procs |-> "idle"]
    /\ urecompile = [p \in Procs |-> FALSE]
    /\ ucols = [p \in Procs |-> <<>>]
    /\ ucats = [p \in Procs |-> <<>>]
    /\ upass = [p \in Procs |-> 0]
    /\ updCalls = 0
    /\ wpc = [w \in Waiters |-> "idle"]
    /\ wAfterRepair = [w \in Waiters |-> FALSE]
    /\ ctask = [t \in CacheTasks |-> IdleTask]
    /\ last = [op |-> "none", key |-> 1, hit2 |-> FALSE, ret |-> NULL, threw |-> FALSE]
    /\ cacheOps = 0

\* a manager that has loaded nothing, an empty tier 2
FreshManager ==
    /\ widgetsInitialized = FALSE
    /\ initialized = FALSE
    /\ loadedCollections = Published(0, <<>>)
    /\ loadedCategories = Published(0, <<>>)
    /\ redisAll = NoList
    /\ redisCats = NoList
    /\ passCount = 0
    /\ initPasses = 0

\* what the specifications have in common
CommonInit ==
    /\ BaseInit
    /\ FreshManager

\* the constructor: on the server it stores the promise of the task that
\* awaits ensureWidgetsInitialized() and then initialize(); in the browser
\* it starts nothing
Init ==
    /\ CommonInit
    /\ OtherIdle
    /\ NormIdle
    /\ ConfigIdle
    /\ RetryIdle
    /\ LoaderIdle
    /\ TreeIdle
    /\ RefreshIdle
    /\ FieldIdle
    /\ EvalIdle
    /\ dev \in BOOLEAN
    /\ fault \in Faults
    /\ fault = "redis" => Tier2
    /\ sources = [k \in Sources |-> 1]
    /\ widgetsInitPromise = IF browser THEN "null" ELSE "pending"
    /\ initializationPromise = IF browser THEN "null" ELSE "pending"
    /\ ipc = IF browser THEN "none" ELSE "widgets"
    /\ cache = [g \in Groups |-> <<>>]
    /\ redisKV = [k \in TierKeys |-> NoEntry]
    /\ origin = [g \in Groups |-> [k \in OpKeys |-> NoOrigin]]
    /\ inserted = [g \in Groups |-> <<>>]
    /\ pure = [g \in Groups |-> TRUE]

\* ------------------------------------------------------------------------
\* The environment
\* ------------------------------------------------------------------------
\* Date.now() moves on (without tier 2 a cache operation has no await: no
\* time passes inside it)
Tick(d) ==
    /\ ticks < MaxTicks
    /\ Tier2 \/ \A t \in CacheTasks : ctask[t].pc = "idle"
    /\ now' = now + d
    /\ ticks' = ticks + 1
    /\ UNCHANGED <<buildVars, browser, dev, redisEnabled, fault, sources, envSteps>>
    /\ UNCHANGED <<widgetVars, managerVars, tierVars, stores, taskVars, waitVars,
                   cacheTaskVars, histVars>>

\* a definition source is edited, created or removed
SourceChange(k, v) ==
    /\ envSteps < MaxEnvSteps
    /\ sources[k] # v
    /\ sources' = [sources EXCEPT ![k] = v]
    /\ envSteps' = envSteps + 1
    /\ UNCHANGED <<buildVars, browser, dev, redisEnabled, now, ticks, fault>>
    /\ UNCHANGED <<widgetVars, managerVars, tierVars, stores, taskVars, waitVars,
                   cacheTaskVars, histVars>>

\* a fault appears (the widget registry cannot initialize, the source
\* provider is unreachable) or is repaired; a waiter that called after a
\* repair no longer counts as such once a new fault appears
\* a consumer of the stores opens definition k for editing
SelectCollection(k) ==
    /\ envSteps < MaxEnvSteps
    /\ envSteps' = envSteps + 1
    /\ stores' = [stores EXCEPT !.selection =
                      [collection |-> k, collectionValue |-> 1, mode |-> "edit"]]
    /\ UNCHANGED <<buildVars, browser, dev, redisEnabled, now, ticks, fault, sources>>
    /\ UNCHANGED <<widgetVars, managerVars, tierVars, taskVars, waitVars,
                   cacheTaskVars, histVars>>

SetFault(f) ==
    /\ envSteps < MaxEnvSteps
    /\ fault # f
    /\ f = "redis" => Tier2
    /\ fault' = f
    /\ envSteps' = envSteps + 1
    /\ wAfterRepair' = IF f = "none" THEN wAfterRepair ELSE [w \in Waiters |-> FALSE]
    /\ UNCHANGED <<buildVars, browser, dev, redisEnabled, now, ticks, sources, wpc>>
    /\ UNCHANGED <<widgetVars, managerVars, tierVars, stores, taskVars,
                   cacheTaskVars, histVars>>

\* another instance of the application publishes its lists to tier 2, or
\* invalidates them
OtherInstanceLists(publish) ==
    /\ Tier2
    /\ envSteps < MaxEnvSteps
    /\ envSteps' = envSteps + 1
    /\ IF publish
       THEN /\ redisAll' = RedisList(ScanSources)
            /\ redisCats' = RedisList(CategoryArray(ScanSources))
       ELSE /\ redisAll.present \/ redisCats.present
            /\ redisAll' = NoList
            /\ redisCats' = NoList
    /\ UNCHANGED <<buildVars, browser, dev, redisEnabled, now, ticks, fault, sources>>
    /\ UNCHANGED <<widgetVars, managerVars, cache, redisKV, stores, taskVars, waitVars,
                   cacheTaskVars, histVars>>

\* ------------------------------------------------------------------------
\* ensureWidgetsInitialized and the constructor's task
\* ------------------------------------------------------------------------
\* initializeWidgets() settles; the memoized widgetsInitPromise keeps the outcome
WidgetsInitSettle ==
    /\ widgetsInitPromise = "pending"
    /\ IF fault = "widgets"
       THEN /\ widgetsInitPromise' = "rejected"
            /\ UNCHANGED widgetsInitialized
       ELSE /\ widgetsInitPromise' = "resolved"
            /\ widgetsInitialized' = TRUE
    /\ UNCHANGED <<envVars, buildVars, managerVars, tierVars, stores, taskVars, waitVars,
                   cacheTaskVars, histVars>>

\* the constructor's catch block forgets to rethrow
ConstructorAfterWidgets_Mut ==
    /\ ipc = "widgets"
    /\ widgetsInitPromise \in {"resolved", "rejected"}
    /\ IF widgetsInitPromise = "resolved"
       THEN /\ ipc' = "check"
            /\ UNCHANGED initializationPromise
       ELSE /\ ipc' = "failed"
            /\ initializationPromise' = "fulfilled"
    /\ UNCHANGED <<upc, urecompile, ucols, ucats, upass, updCalls>>
    /\ UNCHANGED <<initialized, loadedCollections, loadedCategories>>
    /\ UNCHANGED <<envVars, buildVars, widgetVars, tierVars, stores, waitVars, cacheTaskVars, histVars>>

\* the constructor's task resumes after `await ensureWidgetsInitialized()`:
\* it enters initialize() (initialized is false), or rethrows
ConstructorAfterWidgets ==
    /\ ipc = "widgets"
    /\ widgetsInitPromise \in {"resolved", "rejected"}
    /\ IF widgetsInitPromise = "resolved"
       THEN /\ ipc' = "check"
            /\ UNCHANGED initializationPromise
       ELSE /\ ipc' = "failed"
            /\ initializationPromise' = "rejected"
    /\ UNCHANGED <<upc, urecompile, ucols, ucats, upass, updCalls>>
    /\ UNCHANGED <<initialized, loadedCollections, loadedCategories>>
    /\ UNCHANGED <<envVars, buildVars, widgetVars, tierVars, stores, waitVars, cacheTaskVars, histVars>>

\* checkAndUpdateCategories() swallows its errors; then initialize() calls
\* updateCollections(true)
CheckAndUpdateCategories ==
    /\ ipc = "check"
    /\ ipc' = "update"
    /\ upc' = [upc EXCEPT ![InitProc] = "start"]
    /\ urecompile' = [urecompile EXCEPT ![InitProc] = TRUE]
    /\ UNCHANGED <<ucols, ucats, upass, updCalls>>
    /\ UNCHANGED <<envVars, buildVars, widgetVars, managerVars, tierVars, stores, waitVars,
                   cacheTaskVars, histVars>>

\* an initialize() that never sets the flag
InitializeReturn_Mut ==
    /\ ipc = "update"
    /\ upc[InitProc] = "returned"
    /\ initializationPromise' = "fulfilled"
    /\ ipc' = "done"
    /\ upc' = [upc EXCEPT ![InitProc] = "idle"]
    /\ UNCHANGED <<initialized, loadedCollections, loadedCategories>>
    /\ UNCHANGED <<urecompile, ucols, ucats, upass, updCalls>>
    /\ UNCHANGED <<envVars, buildVars, widgetVars, tierVars, stores, waitVars, cacheTaskVars, histVars>>

\* updateCollections(true) returned: `this.initialized = true`, and the
\* stored promise is fulfilled
InitializeReturn ==
    /\ ipc = "update"
    /\ upc[InitProc] = "returned"
    /\ initialized' = TRUE
    /\ initializationPromise' = "fulfilled"
    /\ ipc' = "done"
    /\ upc' = [upc EXCEPT ![InitProc] = "idle"]
    /\ UNCHANGED <<loadedCollections, loadedCategories>>
    /\ UNCHANGED <<urecompile, ucols, ucats, upass, updCalls>>
    /\ UNCHANGED <<envVars, buildVars, widgetVars, tierVars, stores, waitVars, cacheTaskVars, histVars>>

\* updateCollections(true) threw: initialize() and the constructor's task
\* rethrow, the stored promise is rejected
InitializeThrow ==
    /\ ipc = "update"
    /\ upc[InitProc] = "threw"
    /\ initializationPromise' = "rejected"
    /\ ipc' = "failed"
    /\ upc' = [upc EXCEPT ![InitProc] = "idle"]
    /\ UNCHANGED <<initialized, loadedCollections, loadedCategories>>
    /\ UNCHANGED <<urecompile, ucols, ucats, upass, updCalls>>
    /\ UNCHANGED <<envVars, buildVars, widgetVars, tierVars, stores, waitVars, cacheTaskVars, histVars>>

\* an initialize() that ignores `initialized` and begins a load pass
InitializeOnReady_Mut ==
    /\ initialized
    /\ envSteps < MaxEnvSteps
    /\ envSteps' = envSteps + 1
    /\ passCount' = passCount + 1
    /\ UNCHANGED <<initPasses, origin, inserted, pure>>
    /\ UNCHANGED <<buildVars, browser, dev, redisEnabled, now, ticks, fault, sources>>
    /\ UNCHANGED <<widgetVars, managerVars, tierVars, stores, taskVars, waitVars,
                   cacheTaskVars>>

\* initialize() is called again on a manager that is initialized:
\* `if (this.initialized) return`
InitializeOnReady ==
    /\ initialized
    /\ envSteps < MaxEnvSteps
    /\ envSteps' = envSteps + 1
    /\ UNCHANGED <<buildVars, browser, dev, redisEnabled, now, ticks, fault, sources>>
    /\ UNCHANGED <<widgetVars, managerVars, tierVars, stores, taskVars, waitVars,
                   cacheTaskVars, histVars>>

\* ------------------------------------------------------------------------
\* updateCollections(recompile), run by process p
\* ------------------------------------------------------------------------
\* a caller outside the manager calls updateCollections(rc)
UpdateCollectionsCall(p, rc) ==
    /\ p \in Updaters
    /\ upc[p] \in {"idle", "returned", "threw"}
    /\ updCalls < MaxUpdateCalls
    /\ updCalls' = updCalls + 1
    /\ upc' = [upc EXCEPT ![p] = "start"]
    /\ urecompile' = [urecompile EXCEPT ![p] = rc]
    /\ UNCHANGED <<ipc, ucols, ucats, upass>>
    /\ UNCHANGED <<envVars, buildVars, widgetVars, managerVars, tierVars, stores, waitVars,
                   cacheTaskVars, histVars>>

\* `if (recompile) { collectionCache.clear(); fileHashCache.clear();
\*  await clearCache('cms:all_collections') }`; a rejected clearCache is
\* rethrown by the catch of updateCollections
UpdateCollectionsStart(p) ==
    /\ upc[p] = "start"
    /\ passCount' = passCount + 1
    /\ upass' = [upass EXCEPT ![p] = passCount + 1]
    /\ IF urecompile[p]
       THEN /\ cache' = [cache EXCEPT !["collectionCache"] = <<>>, !["fileHashCache"] = <<>>]
            /\ redisAll' = IF Tier2 /\ ~TierFails THEN NoList ELSE redisAll
       ELSE UNCHANGED <<cache, redisAll>>
    /\ upc' = [upc EXCEPT ![p] = IF urecompile[p] /\ TierFails THEN "threw" ELSE "load"]
    /\ UNCHANGED <<ipc, urecompile, ucols, ucats, updCalls>>
    /\ UNCHANGED <<initPasses, origin, inserted, pure, redisKV, redisCats>>
    /\ UNCHANGED <<envVars, buildVars, widgetVars, managerVars, stores, waitVars, cacheTaskVars>>

\* in production on the server a source is compiled by processModule, which
\* awaits ensureWidgetsInitialized() and yields null when that rejects
CompileBlocked == ~dev /\ ~browser /\ widgetsInitPromise = "pending"

CompileFails == ~dev /\ ~browser /\ widgetsInitPromise = "rejected"

\* loadCollections(): the list tier 2 holds, or a scan of the sources that
\* stores every definition with setCacheValue; outside development mode the
\* scan throws when the source provider is unreachable; a rejected
\* getCache is rethrown by the catch of loadCollections
LoadCollections(p) ==
    /\ upc[p] = "load"
    /\ initPasses' = IF p = InitProc THEN initPasses + 1 ELSE initPasses
    /\ IF TierFails
       THEN /\ upc' = [upc EXCEPT ![p] = "threw"]
            /\ UNCHANGED <<loadedCollections, ucols, cache, redisKV>>
       ELSE IF Tier2 /\ RedisListHit(redisAll)
       THEN /\ loadedCollections' = Published(upass[p], redisAll.value)
            /\ ucols' = [ucols EXCEPT ![p] = redisAll.value]
            /\ upc' = [upc EXCEPT ![p] = "cats"]
            /\ UNCHANGED <<cache, redisKV>>
       ELSE IF ~dev /\ fault = "provider"
       THEN /\ upc' = [upc EXCEPT ![p] = "threw"]
            /\ UNCHANGED <<loadedCollections, ucols, cache, redisKV>>
       ELSE /\ ~CompileBlocked
            /\ LET cols == IF CompileFails THEN <<>> ELSE ScanSources
               IN  /\ ucols' = [ucols EXCEPT ![p] = cols]
                   /\ cache' = [cache EXCEPT !["collectionCache"] = SetAllLocal(@, cols)]
                   /\ redisKV' = IF Tier2 THEN SetAllRedis(redisKV, cols) ELSE redisKV
            /\ upc' = [upc EXCEPT ![p] = "assign"]
            /\ UNCHANGED loadedCollections
    /\ UNCHANGED <<ipc, urecompile, ucats, upass, updCalls>>
    /\ UNCHANGED <<passCount, origin, inserted, pure, redisAll, redisCats>>
    /\ UNCHANGED <<initialized, initializationPromise, loadedCategories>>
    /\ UNCHANGED <<envVars, buildVars, widgetVars, stores, waitVars, cacheTaskVars>>

\* `await setCache('cms:all_collections', collections, REDIS_TTL);
\*  this.loadedCollections = collections`
LoadCollectionsAssign(p) ==
    /\ upc[p] = "assign"
    /\ IF TierFails
       THEN /\ upc' = [upc EXCEPT ![p] = "threw"]
            /\ UNCHANGED <<redisAll, loadedCollections>>
       ELSE /\ redisAll' = IF Tier2 THEN RedisList(ucols[p]) ELSE redisAll
            /\ loadedCollections' = Published(upass[p], ucols[p])
            /\ upc' = [upc EXCEPT ![p] = "cats"]
    /\ UNCHANGED <<ipc, urecompile, ucols, ucats, upass, updCalls>>
    /\ UNCHANGED <<cache, redisKV, redisCats, histVars>>
    /\ UNCHANGED <<initialized, initializationPromise, loadedCategories>>
    /\ UNCHANGED <<envVars, buildVars, widgetVars, stores, waitVars, cacheTaskVars>>

\* createCategories(): the list tier 2 holds, or the category array built
\* from the values of collectionCache
CreateCategories(p) ==
    /\ upc[p] = "cats"
    /\ IF TierFails
       THEN /\ upc' = [upc EXCEPT ![p] = "threw"]
            /\ UNCHANGED <<loadedCategories, ucats>>
       ELSE IF Tier2 /\ RedisListHit(redisCats)
       THEN /\ loadedCategories' = Published(upass[p], redisCats.value)
            /\ ucats' = [ucats EXCEPT ![p] = redisCats.value]
            /\ upc' = [upc EXCEPT ![p] = "publish"]
       ELSE /\ ucats' = [ucats EXCEPT ![p] =
                            CategoryArray(CollectionsList(cache["collectionCache"]))]
            /\ upc' = [upc EXCEPT ![p] = "catsAssign"]
            /\ UNCHANGED loadedCategories
    /\ UNCHANGED <<ipc, urecompile, ucols, upass, updCalls>>
    /\ UNCHANGED <<tierVars, histVars>>
    /\ UNCHANGED <<initialized, initializationPromise, loadedCollections>>
    /\ UNCHANGED <<envVars, buildVars, widgetVars, stores, waitVars, cacheTaskVars>>

\* `await setCache('cms:categories', categoryArray, REDIS_TTL);
\*  categoryCache.clear(); ...categoryCache.set(...);
\*  this.loadedCategories = categoryArray`
CreateCategoriesAssign(p) ==
    /\ upc[p] = "catsAssign"
    /\ IF TierFails
       THEN /\ upc' = [upc EXCEPT ![p] = "threw"]
            /\ UNCHANGED <<redisCats, cache, loadedCategories>>
       ELSE /\ redisCats' = IF Tier2 THEN RedisList(ucats[p]) ELSE redisCats
            /\ cache' = [cache EXCEPT !["categoryCache"] =
                            CategoryCacheOf(CollectionsList(cache["collectionCache"]))]
            /\ loadedCategories' = Published(upass[p], ucats[p])
            /\ upc' = [upc EXCEPT ![p] = "publish"]
    /\ UNCHANGED <<ipc, urecompile, ucols, ucats, upass, updCalls>>
    /\ UNCHANGED <<redisKV, redisAll, histVars>>
    /\ UNCHANGED <<initialized, initializationPromise, loadedCollections>>
    /\ UNCHANGED <<envVars, buildVars, widgetVars, stores, waitVars, cacheTaskVars>>

\* the stores are set from the values the two calls returned
UpdateCollectionsPublish(p) ==
    /\ upc[p] = "publish"
    /\ stores' = SetStores(ucols[p], ucats[p])
    /\ upc' = [upc EXCEPT ![p] = "returned"]
    /\ UNCHANGED <<ipc, urecompile, ucols, ucats, upass, updCalls>>
    /\ UNCHANGED <<envVars, buildVars, widgetVars, managerVars, tierVars, waitVars,
                   cacheTaskVars, histVars>>

\* ------------------------------------------------------------------------
\* waitForInitialization(), called by w
\* ------------------------------------------------------------------------
\* a waitForInitialization that does not share the stored promise: while
\* the manager is not initialized the caller runs the initialization again
WaitForInitializationCall_Mut(w) ==
    /\ wpc[w] = "idle"
    /\ \A x \in Waiters : x < w => wpc[x] # "idle"
    /\ wpc' = [wpc EXCEPT ![w] = IF initializationPromise = "null" THEN "resolved" ELSE "waiting"]
    /\ wAfterRepair' = [wAfterRepair EXCEPT ![w] = initializationPromise = "rejected" /\ fault = "none"]
    /\ IF ~initialized /\ ipc = "update" /\ upc[InitProc] \in {"assign", "cats", "catsAssign", "publish"}
       THEN upc' = [upc EXCEPT ![InitProc] = "start"]
       ELSE UNCHANGED upc
    /\ UNCHANGED <<ipc, urecompile, ucols, ucats, upass, updCalls>>
    /\ UNCHANGED <<envVars, buildVars, widgetVars, managerVars, tierVars, stores, cacheTaskVars, histVars>>

\* `if (this.initializationPromise) await this.initializationPromise`:
\* without a stored promise the call returns at once
WaitForInitializationCall(w) ==
    /\ wpc[w] = "idle"
    /\ \A x \in Waiters : x < w => wpc[x] # "idle"
    /\ wpc' = [wpc EXCEPT ![w] = IF initializationPromise = "null" THEN "resolved" ELSE "waiting"]
    /\ wAfterRepair' = [wAfterRepair EXCEPT ![w] = initializationPromise = "rejected" /\ fault = "none"]
    /\ UNCHANGED <<envVars, buildVars, widgetVars, managerVars, tierVars, stores, taskVars,
                   cacheTaskVars, histVars>>

\* the awaited promise has settled: the caller resumes with its outcome
WaitForInitializationResume(w) ==
    /\ wpc[w] = "waiting"
    /\ initializationPromise \in {"fulfilled", "rejected"}
    /\ wpc' = [wpc EXCEPT ![w] = IF initializationPromise = "fulfilled" THEN "resolved" ELSE "rejected"]
    /\ UNCHANGED wAfterRepair
    /\ UNCHANGED <<envVars, buildVars, widgetVars, managerVars, tierVars, stores, taskVars,
                   cacheTaskVars, histVars>>

\* ------------------------------------------------------------------------
\* Life cycle specification
\* ------------------------------------------------------------------------
Next ==
    \/ \E k \in Sources, v \in {0} \cup Versions : SourceChange(k, v)
    \/ \E f \in Faults : SetFault(f)
    \/ \E k \in Sources : SelectCollection(k)
    \/ \E b \in BOOLEAN : OtherInstanceLists(b)
    \/ WidgetsInitSettle
    \/ ConstructorAfterWidgets
    \/ CheckAndUpdateCategories
    \/ InitializeReturn
    \/ InitializeThrow
    \/ InitializeOnReady
    \/ \E p \in Updaters, rc \in BOOLEAN : UpdateCollectionsCall(p, rc)
    \/ \E p \in Procs : UpdateCollectionsStart(p)
    \/ \E p \in Procs : LoadCollections(p)
    \/ \E p \in Procs : LoadCollectionsAssign(p)
    \/ \E p \in Procs : CreateCategories(p)
    \/ \E p \in Procs : CreateCategoriesAssign(p)
    \/ \E p \in Procs : UpdateCollectionsPublish(p)
    \/ \E w \in Waiters : WaitForInitializationCall(w)
    \/ \E w \in Waiters : WaitForInitializationResume(w)

Spec == Init /\ [][Next]_vars

\* ------------------------------------------------------------------------
\* Claims about the life cycle (checked under Spec)
\* ------------------------------------------------------------------------
SomeWaiterResolved == \E w \in Waiters : wpc[w] = "resolved"

\* C1, as stated: whatever the number of callers of waitForInitialization,
\* once a caller's wait has resolved the initialization pass (initialize ->
\* updateCollections(true) -> loadCollections) has run exactly once.
C1_ExactlyOnePass == SomeWaiterResolved => initPasses = 1

\* C1, amended: the initialization pass is begun at most once however many
\* callers wait, no caller begins one; on the server exactly one pass has
\* run when a caller's wait has resolved, in the browser none is ever run.
C1_SingleFlight ==
    /\ initPasses <= 1
    /\ browser => initPasses = 0
    /\ (~browser /\ SomeWaiterResolved) => initPasses = 1

C1_Witness == ~browser /\ initPasses = 1 /\ \A w \in Waiters : wpc[w] = "resolved"

C3_NoTornSnapshot ==
    (/\ loadedCollections.pass >= 1
     /\ loadedCategories.pass >= 1
     /\ loadedCollections.pass # loadedCategories.pass) =>
        loadedCategories.list = CategoryArray(loadedCollections.list)

\* C4: when the initialization attempt has failed, no caller's wait has
\* resolved (every wait that ended was rejected) and the manager is not Ready.
C4_FailedInitRejectsAll ==
    ipc = "failed" =>
        /\ ~initialized
        /\ \A w \in Waiters : wpc[w] # "resolved"

C4_Witness == ipc = "failed" /\ \A w \in Waiters : wpc[w] = "rejected"

\* C5: a waitForInitialization() call made after the initialization failed,
\* at a time the cause of the failure has been removed, resolves and the
\* manager is Ready.
C5_RetryAfterRepair ==
    \A w \in Waiters :
        (wAfterRepair[w] /\ wpc[w] \in {"resolved", "rejected"}) =>
            (wpc[w] = "resolved" /\ initialized)

\* ------------------------------------------------------------------------
\* The cache operations, run by task t (CacheSpec)
\* ------------------------------------------------------------------------
\* origin[g][k] is forgotten when k is written or deleted in either tier by
\* anything but a read, and is not recorded for a setCacheValue that
\* overlaps another operation on k
ForgetKey(o, k) == [g \in Groups |-> [o[g] EXCEPT ![k] = NoOrigin]]

ForgetMissing(og, c) == [k \in OpKeys |-> IF Has(c, k) THEN og[k] ELSE NoOrigin]

\* a task other than t is inside an operation on k
OtherInFlight(t, k) ==
    \E x \in CacheTasks \ {t} : ctask[x].pc # "idle" /\ ctask[x].key = k

\* task t may start an operation; without tier 2 the operations have no
\* await and run one after the other
Idle(t) ==
    /\ ctask[t].pc = "idle"
    /\ \A x \in CacheTasks : x < t => ctask[x].pc # "idle"
    /\ Tier2 \/ \A x \in CacheTasks : ctask[x].pc = "idle"

\* setCacheValue, up to `await setCache(...)`
SetCacheValueCall(t, g, k, v) ==
    /\ Idle(t)
    /\ cacheOps < MaxCacheOps
    /\ cacheOps' = cacheOps + 1
    /\ ctask' = [ctask EXCEPT ![t] = [pc |-> "set", group |-> g, key |-> k, value |-> v,
                                      tier2 |-> NULL, at |-> now, rejected |-> TierFails]]
    /\ IF Tier2 /\ ~TierFails
       THEN /\ redisKV' = [redisKV EXCEPT ![k] = RedisEntry(v, REDIS_TTL)]
            /\ origin' = ForgetKey(origin, k)
       ELSE UNCHANGED <<redisKV, origin>>
    /\ UNCHANGED <<last, cache, redisAll, redisCats, passCount, initPasses, inserted, pure>>
    /\ UNCHANGED <<envVars, buildVars, widgetVars, managerVars, stores, taskVars, waitVars>>

\* setCacheValue, the rest: `cache.set(key, {value, timestamp: Date.now()});
\* this.trimCache(cache)`
SetCacheValueResume(t) ==
    LET g == ctask[t].group
        k == ctask[t].key
        v == ctask[t].value
        c == SetLocal(cache[g], k, v)
    IN  /\ ctask[t].pc = "set"
        /\ ctask' = [ctask EXCEPT ![t] = IdleTask]
        /\ IF ctask[t].rejected
           THEN \* `await setCache(...)` rejected: setCacheValue throws here
                /\ last' = [op |-> "set", key |-> k, hit2 |-> FALSE, ret |-> NULL, threw |-> TRUE]
                /\ UNCHANGED <<cache, origin, inserted, pure>>
           ELSE /\ cache' = [cache EXCEPT ![g] = c]
                /\ last' = [op |-> "set", key |-> k, hit2 |-> FALSE, ret |-> NULL, threw |-> FALSE]
                /\ origin' = [origin EXCEPT ![g] =
                                ForgetMissing([@ EXCEPT ![k] = IF OtherInFlight(t, k) THEN NoOrigin
                                                               ELSE Origin(v, now)], c)]
                /\ inserted' = [inserted EXCEPT ![g] = IF InSeq(@, k) THEN @ ELSE Append(@, k)]
                /\ pure' = [pure EXCEPT ![g] = @ /\ ~InSeq(inserted[g], k)]
        /\ UNCHANGED <<cacheOps, redisKV, redisAll, redisCats, passCount, initPasses>>
        /\ UNCHANGED <<envVars, buildVars, widgetVars, managerVars, stores, taskVars, waitVars>>

\* getCacheValue, up to `await getCache(...)`
GetCacheValueCall(t, g, k) ==
    /\ Idle(t)
    /\ cacheOps < MaxCacheOps
    /\ cacheOps' = cacheOps + 1
    /\ ctask' = [ctask EXCEPT ![t] = [pc |-> "get", group |-> g, key |-> k, value |-> NULL,
                                      tier2 |-> IF Tier2 /\ ~TierFails THEN RedisRead(redisKV[k])
                                                ELSE NULL,
                                      at |-> now, rejected |-> TierFails]]
    /\ UNCHANGED <<last, tierVars, histVars>>
    /\ UNCHANGED <<envVars, buildVars, widgetVars, managerVars, stores, taskVars, waitVars>>

\* the memory tier alone: absent, expired (and deleted) or the stored value
LocalRead(c, k) ==
    IF ~Has(c, k) THEN NULL
    ELSE IF now - MapGet(c, k).timestamp > CACHE_TTL THEN NULL
    ELSE MapGet(c, k).value

LocalAfterRead(c, k) ==
    IF Has(c, k) /\ now - MapGet(c, k).timestamp > CACHE_TTL THEN MapDelete(c, k) ELSE c

\* a getCacheValue that asks the memory tier first
GetCacheValueResume_Mut(t) ==
    LET g == ctask[t].group
        k == ctask[t].key
        r2 == ctask[t].tier2
        hit1 == LocalRead(cache[g], k) # NULL
    IN  /\ ctask[t].pc = "get"
        /\ ctask' = [ctask EXCEPT ![t] = IdleTask]
        /\ IF ctask[t].rejected
           THEN /\ last' = [op |-> "get", key |-> k, hit2 |-> FALSE, ret |-> NULL, threw |-> TRUE]
                /\ UNCHANGED cache
           ELSE IF ~hit1 /\ r2 # NULL
           THEN /\ cache' = [cache EXCEPT ![g] = MapSet(@, k, Entry(k, r2, now))]
                /\ last' = [op |-> "get", key |-> k, hit2 |-> TRUE, ret |-> r2, threw |-> FALSE]
           ELSE /\ cache' = [cache EXCEPT ![g] = LocalAfterRead(@, k)]
                /\ last' = [op |-> "get", key |-> k, hit2 |-> r2 # NULL,
                            ret |-> LocalRead(cache[g], k), threw |-> FALSE]
        /\ pure' = [pure EXCEPT ![g] = @ /\ cache'[g] = cache[g]]
        /\ UNCHANGED <<cacheOps, redisKV, redisAll, redisCats, passCount, initPasses, origin, inserted>>
        /\ UNCHANGED <<envVars, buildVars, widgetVars, managerVars, stores, taskVars, waitVars>>

\* getCacheValue, the rest: a tier-2 value is stored in the memory tier with
\* the current time and returned; otherwise the memory tier decides
GetCacheValueResume(t) ==
    LET g == ctask[t].group
        k == ctask[t].key
        r2 == ctask[t].tier2
    IN  /\ ctask[t].pc = "get"
        /\ ctask' = [ctask EXCEPT ![t] = IdleTask]
        /\ IF ctask[t].rejected
           THEN \* `await getCache(...)` rejected: getCacheValue throws here
                /\ last' = [op |-> "get", key |-> k, hit2 |-> FALSE, ret |-> NULL, threw |-> TRUE]
                /\ UNCHANGED cache
           ELSE IF r2 # NULL
           THEN /\ cache' = [cache EXCEPT ![g] = MapSet(@, k, Entry(k, r2, now))]
                /\ last' = [op |-> "get", key |-> k, hit2 |-> TRUE, ret |-> r2, threw |-> FALSE]
           ELSE /\ cache' = [cache EXCEPT ![g] = LocalAfterRead(@, k)]
                /\ last' = [op |-> "get", key |-> k, hit2 |-> FALSE,
                            ret |-> LocalRead(cache[g], k), threw |-> FALSE]
        /\ pure' = [pure EXCEPT ![g] = @ /\ cache'[g] = cache[g]]
        /\ UNCHANGED <<cacheOps, redisKV, redisAll, redisCats, passCount, initPasses, origin, inserted>>
        /\ UNCHANGED <<envVars, buildVars, widgetVars, managerVars, stores, taskVars, waitVars>>

\* clearCacheValue, up to `await clearCache(...)`
ClearCacheValueCall(t, k) ==
    /\ Idle(t)
    /\ cacheOps < MaxCacheOps
    /\ cacheOps' = cacheOps + 1
    /\ ctask' = [ctask EXCEPT ![t] = [pc |-> "clear", group |-> "collectionCache", key |-> k,
                                      value |-> NULL, tier2 |-> NULL, at |-> now,
                                      rejected |-> TierFails]]
    /\ IF Tier2 /\ ~TierFails
       THEN /\ redisKV' = [redisKV EXCEPT ![k] = NoEntry]
            /\ origin' = ForgetKey(origin, k)
       ELSE UNCHANGED <<redisKV, origin>>
    /\ UNCHANGED <<last, cache, redisAll, redisCats, passCount, initPasses, inserted, pure>>
    /\ UNCHANGED <<envVars, buildVars, widgetVars, managerVars, stores, taskVars, waitVars>>

\* clearCacheValue, the rest: the key is deleted from the three groups
ClearCacheValueResume(t) ==
    LET k == ctask[t].key
    IN  /\ ctask[t].pc = "clear"
        /\ ctask' = [ctask EXCEPT ![t] = IdleTask]
        /\ IF ctask[t].rejected
           THEN \* `await clearCache(...)` rejected: clearCacheValue throws here
                /\ last' = [op |-> "clear", key |-> k, hit2 |-> FALSE, ret |-> NULL, threw |-> TRUE]
                /\ UNCHANGED <<cache, origin, pure>>
           ELSE /\ cache' = [g \in Groups |-> MapDelete(cache[g], k)]
                /\ last' = [op |-> "clear", key |-> k, hit2 |-> FALSE, ret |-> NULL, threw |-> FALSE]
                /\ origin' = ForgetKey(origin, k)
                /\ pure' = [g \in Groups |-> pure[g] /\ ~Has(cache[g], k)]
        /\ UNCHANGED <<cacheOps, redisKV, redisAll, redisCats, passCount, initPasses, inserted>>
        /\ UNCHANGED <<envVars, buildVars, widgetVars, managerVars, stores, taskVars, waitVars>>

\* ------------------------------------------------------------------------
\* Cache specification: collectionCache starts with Prefill entries that
\* setCacheValue stored at time 0, categoryCache with one entry
\* ------------------------------------------------------------------------
PrefilledGroup == [i \in 1..Prefill |-> Entry(i, 1, 0)]

CacheInit ==
    /\ CommonInit
    /\ OtherIdle
    /\ NormIdle
    /\ ConfigIdle
    /\ RetryIdle
    /\ LoaderIdle
    /\ TreeIdle
    /\ RefreshIdle
    /\ FieldIdle
    /\ EvalIdle
    /\ dev = FALSE
    /\ fault \in {"none", "redis"}
    /\ fault = "redis" => Tier2
    /\ sources = [k \in Sources |-> 1]
    /\ widgetsInitPromise = IF browser THEN "null" ELSE "pending"
    /\ initializationPromise = IF browser THEN "null" ELSE "pending"
    /\ ipc = IF browser THEN "none" ELSE "widgets"
    /\ cache = [g \in Groups |-> IF g = "collectionCache" THEN PrefilledGroup
                                 ELSE IF g = "categoryCache" THEN <<Entry(1, 1, 0)>>
                                 ELSE <<>>]
    /\ redisKV = [k \in TierKeys |-> IF Tier2 /\ k <= Prefill THEN RedisEntry(1, REDIS_TTL) ELSE NoEntry]
    /\ origin = [g \in Groups |-> [k \in OpKeys |->
                    IF g = "collectionCache" /\ k <= Prefill THEN Origin(1, 0) ELSE NoOrigin]]
    /\ inserted = [g \in Groups |-> KeysOf(cache[g])]
    /\ pure = [g \in Groups |-> TRUE]

CacheNext ==
    \/ \E d \in TickSteps : Tick(d)
    \/ \E t \in CacheTasks, g \in OpGroups, k \in OpKeys, v \in Values : SetCacheValueCall(t, g, k, v)
    \/ \E t \in CacheTasks : SetCacheValueResume(t)
    \/ \E t \in CacheTasks, g \in OpGroups, k \in OpKeys : GetCacheValueCall(t, g, k)
    \/ \E t \in CacheTasks : GetCacheValueResume(t)
    \/ \E t \in CacheTasks, k \in OpKeys : ClearCacheValueCall(t, k)
    \/ \E t \in CacheTasks : ClearCacheValueResume(t)

CacheSpec == CacheInit /\ [][CacheNext]_vars

\* ------------------------------------------------------------------------
\* Claims about the cache (checked under CacheSpec)
\* ------------------------------------------------------------------------
\* task t returns a result from getCacheValue in this step
GetReturns(t) == ctask[t].pc = "get" /\ ctask'[t].pc = "idle" /\ ~ctask[t].rejected

\* C6: a value stored with setCacheValue at time T (and not written or
\* deleted since) is reported absent and removed from the memory tier by a
\* read made after T + CACHE_TTL, and reported present with the value that
\* was set by a read made up to T + CACHE_TTL, with or without tier 2.
C6_CacheTTL ==
    [][\A t \in CacheTasks :
          GetReturns(t) =>
              LET g == ctask[t].group
                  k == ctask[t].key
                  o == origin[g][k]
              IN  o.value # NULL =>
                      /\ ctask[t].at - o.at > CACHE_TTL =>
                             (last'.ret = NULL /\ ~Has(cache'[g], k))
                      /\ now - o.at <= CACHE_TTL => last'.ret = o.value]_vars

\* the keys of the last n entries of a sequence
LastKeys(q, n) == SubSeq(q, Len(q) - n + 1, Len(q))

\* C7: after setCacheValue has inserted MAX_CACHE_SIZE + k distinct keys
\* into a group (and nothing else changed the group) the group holds
\* exactly the MAX_CACHE_SIZE keys inserted last, in insertion order.
C7_EvictionBound ==
    \A g \in Groups :
        (pure[g] /\ Len(inserted[g]) >= MAX_CACHE_SIZE) =>
            KeysOf(cache[g]) = LastKeys(inserted[g], MAX_CACHE_SIZE)

\* two keys beyond the capacity were inserted, the last one with the
\* timestamp that the oldest remaining entry carries
C7_Witness ==
    LET c == cache["collectionCache"]
    IN  /\ pure["collectionCache"]
        /\ Len(inserted["collectionCache"]) = MAX_CACHE_SIZE + 2
        /\ Len(c) = MAX_CACHE_SIZE
        /\ c[1].timestamp = c[Len(c)].timestamp

\* C8: every cache group of the memory tier holds at most MAX_CACHE_SIZE
\* entries.
C8_SizeBound == \A g \in Groups : Len(cache[g]) <= MAX_CACHE_SIZE

\* C9: a getCacheValue that finds the key leaves the timestamp stored for
\* the key as it was.
C9_ReadKeepsTimestamp ==
    [][\A t \in CacheTasks :
          GetReturns(t) =>
              LET g == ctask[t].group
                  k == ctask[t].key
              IN  (Has(cache[g], k) /\ Has(cache'[g], k)) =>
                      MapGet(cache'[g], k).timestamp = MapGet(cache[g], k).timestamp]_vars

\* C10: with tier 2 available, a getCacheValue whose tier-2 read found a
\* value returns that value and leaves it in the memory tier under the key;
\* with a tier-2 miss, or without tier 2, the memory tier alone decides.
C10_ReadPath ==
    [][\A t \in CacheTasks :
          GetReturns(t) =>
              LET g == ctask[t].group
                  k == ctask[t].key
                  r2 == ctask[t].tier2
              IN  IF Tier2 /\ r2 # NULL
                  THEN /\ last'.ret = r2
                       /\ Has(cache'[g], k)
                       /\ MapGet(cache'[g], k).value = r2
                  ELSE /\ last'.ret = (IF ~Has(cache[g], k) THEN NULL
                                       ELSE IF now - MapGet(cache[g], k).timestamp > CACHE_TTL
                                       THEN NULL
                                       ELSE MapGet(cache[g], k).value)
                       /\ \A x \in KeySet(cache'[g]) : x \in KeySet(cache[g])]_vars

\* a read returned the value of tier 2 while the memory tier held another
\* value for the key, and now holds the returned one
C10_Witness ==
    /\ Tier2
    /\ last.op = "get"
    /\ last.hit2
    /\ last.ret = 2
    /\ Has(cache["collectionCache"], last.key)
    /\ MapGet(cache["collectionCache"], last.key).value = 2

\* task t leaves setCacheValue in this step (by return or by throw)
SetEnds(t) == ctask[t].pc = "set" /\ ctask'[t].pc = "idle"

\* C11: when a call setCacheValue(key, v, group) ends, the memory tier of
\* the group holds v for key unless trimming removed it, whether tier 2 is
\* absent, available or failing; and with tier 2 available the write
\* leaves v under the key in tier 2, expiring REDIS_TTL seconds later.
C11_WriteThrough ==
    [][\A t \in CacheTasks :
          /\ SetEnds(t) =>
                LET g == ctask[t].group
                    k == ctask[t].key
                    v == ctask[t].value
                IN  \/ Has(cache'[g], k) /\ MapGet(cache'[g], k).value = v
                    \/ Len(MapSet(cache[g], k, Entry(k, v, now))) > MAX_CACHE_SIZE
          /\ (ctask[t].pc = "idle" /\ ctask'[t].pc = "set" /\ Tier2 /\ ~TierFails) =>
                redisKV'[ctask'[t].key] =
                    [value |-> ctask'[t].value, expiresAt |-> now + REDIS_TTL * 1000]]_vars

\* C12: a cache operation whose tier-2 call was rejected does not throw:
\* getCacheValue answers from the memory tier, setCacheValue writes the
\* memory tier, clearCacheValue deletes from it.
C12_TierFailureTolerated ==
    [][\A t \in CacheTasks :
          (ctask[t].pc # "idle" /\ ctask'[t].pc = "idle" /\ ctask[t].rejected) =>
              LET g == ctask[t].group
                  k == ctask[t].key
              IN  /\ ~last'.threw
                  /\ ctask[t].pc = "get" => last'.ret = LocalRead(cache[g], k)
                  /\ ctask[t].pc = "set" =>
                         \/ Has(cache'[g], k) /\ MapGet(cache'[g], k).value = ctask[t].value
                         \/ Len(cache'[g]) = MAX_CACHE_SIZE
                  /\ ctask[t].pc = "clear" => ~Has(cache'[g], k)]_vars

\* ------------------------------------------------------------------------
\* loadCollections() over sources that may fail to compile or to be read
\* ------------------------------------------------------------------------
\* retryOperation(op): op is invoked until an invocation succeeds, at most
\* MAX_RETRIES times; TRUE when it returns op's result, FALSE when it throws
\* the last error. The first `failures` invocations of op fail.
RECURSIVE RetryLoop(_, _)
RetryLoop(i, failures) ==
    IF i >= MAX_RETRIES THEN FALSE
    ELSE IF failures <= i THEN TRUE
    ELSE RetryLoop(i + 1, failures)

RetryOperation(failures) == RetryLoop(0, failures)

\* readFile(filePath): in the browser the request goes through
\* retryOperation, on the server fs.readFile is called once and its error
\* rethrown; TRUE when the content is returned
ReadFile(k) == IF browser THEN RetryOperation(readFailures[k]) ELSE readFailures[k] = 0

\* processModule awaits ensureWidgetsInitialized() and returns null when
\* that rejects or when the content cannot be evaluated
ProcessModule(k) == fault # "widgets" /\ widgetsInitPromise # "rejected" /\ compiles[k]

\* a processCollectionFile that returns a definition without content for a
\* source that does not compile
ProcessCollectionFile_Mut(k) ==
    IF ProcessModule(k) THEN <<Def(k, sources[k])>> ELSE <<Def(k, 0)>>

\* processCollectionFile(filePath, content): the definition, or null (here
\* the empty list) when processModule yields no schema or anything throws
ProcessCollectionFile(k) == IF ProcessModule(k) THEN <<Def(k, sources[k])>> ELSE <<>>

\* server-side compilation: `for (const filePath of files) { content = await
\* this.readFile(...); schema = await this.processCollectionFile(...);
\* if (schema) { collections.push(schema); await this.setCacheValue(...) } }`;
\* a readFile that throws leaves the loop and loadCollections
RECURSIVE ScanServer(_, _)
ScanServer(k, acc) ==
    IF k \notin Sources THEN [status |-> "returned", list |-> acc]
    ELSE IF sources[k] = 0 THEN ScanServer(k + 1, acc)
    ELSE IF ~ReadFile(k) THEN [status |-> "threw", list |-> acc]
    ELSE ScanServer(k + 1, acc \o ProcessCollectionFile(k))

\* development mode: the modules of import.meta.glob; one without a schema
\* is skipped
RECURSIVE ScanDev(_)
ScanDev(k) ==
    IF k \notin Sources THEN <<>>
    ELSE (IF sources[k] # 0 /\ compiles[k] THEN <<Def(k, sources[k])>> ELSE <<>>)
         \o ScanDev(k + 1)

\* the collections the structure API of the server answers with
ApiCollections == ScanDev(1)

\* production mode in the browser: the structure API through retryOperation
ScanApi ==
    IF RetryOperation(apiFailures) THEN [status |-> "returned", list |-> ApiCollections]
    ELSE [status |-> "threw", list |-> <<>>]

\* the body of loadCollections after the tier-2 lookup missed
ScanOutcome ==
    IF dev THEN [status |-> "returned", list |-> ScanDev(1)]
    ELSE IF browser THEN ScanApi
    ELSE ScanServer(1, <<>>)

\* a server-side scan compiles at least one file: processModule has awaited
\* ensureWidgetsInitialized()
ScanInitializesWidgets ==
    ~dev /\ ~browser /\ \E k \in Sources : sources[k] # 0 /\ ReadFile(k)

\* one call of loadCollections(), from call to return or throw
LoadCollectionsRun ==
    /\ loadOut.status = "none"
    /\ passCount' = passCount + 1
    /\ IF TierFails
       THEN /\ loadOut' = [status |-> "threw", list |-> <<>>]
            /\ UNCHANGED <<cache, redisKV, redisAll, loadedCollections, widgetVars>>
       ELSE IF Tier2 /\ RedisListHit(redisAll)
       THEN /\ loadOut' = [status |-> "returned", list |-> redisAll.value]
            /\ loadedCollections' = Published(passCount + 1, redisAll.value)
            /\ UNCHANGED <<cache, redisKV, redisAll, widgetVars>>
       ELSE LET out == ScanOutcome
            IN  /\ loadOut' = out
                /\ cache' = [cache EXCEPT !["collectionCache"] = SetAllLocal(@, out.list)]
                /\ redisKV' = IF Tier2 THEN SetAllRedis(redisKV, out.list) ELSE redisKV
                /\ IF out.status = "returned"
                   THEN /\ redisAll' = IF Tier2 THEN RedisList(out.list) ELSE redisAll
                        /\ loadedCollections' = Published(passCount + 1, out.list)
                   ELSE UNCHANGED <<redisAll, loadedCollections>>
                /\ IF ScanInitializesWidgets /\ widgetsInitPromise \in {"null", "pending"}
                   THEN /\ widgetsInitPromise' =
                               IF fault = "widgets" THEN "rejected" ELSE "resolved"
                        /\ widgetsInitialized' = (fault # "widgets")
                   ELSE UNCHANGED widgetVars
    /\ UNCHANGED <<initialized, initializationPromise, loadedCategories, redisCats, stores>>
    /\ UNCHANGED <<initPasses, origin, inserted, pure>>
    /\ UNCHANGED <<compiles, readFailures, apiFailures, treeVars, refreshVars, lazyVars,
                   fieldVars, evalVars, lateVars>>
    /\ UNCHANGED <<envVars, taskVars, waitVars, cacheTaskVars>>

\* the sources are in any condition before loadCollections() is called
LoadInit ==
    /\ CommonInit
    /\ OtherIdle
    /\ NormIdle
    /\ ConfigIdle
    /\ RetryIdle
    /\ TreeIdle
    /\ RefreshIdle
    /\ FieldIdle
    /\ EvalIdle
    /\ dev \in BOOLEAN
    /\ fault \in {"none", "widgets"}
    /\ sources = [k \in Sources |-> 1]
    /\ compiles \in [Sources -> BOOLEAN]
    /\ readFailures \in [Sources -> 0..MAX_RETRIES]
    /\ apiFailures \in 0..MAX_RETRIES
    /\ loadOut = [status |-> "none", list |-> <<>>]
    /\ widgetsInitPromise = IF browser THEN "null" ELSE "pending"
    /\ initializationPromise = IF browser THEN "null" ELSE "pending"
    /\ ipc = IF browser THEN "none" ELSE "widgets"
    /\ cache = [g \in Groups |-> <<>>]
    /\ redisKV = [k \in TierKeys |-> NoEntry]
    /\ origin = [g \in Groups |-> [k \in OpKeys |-> NoOrigin]]
    /\ inserted = [g \in Groups |-> <<>>]
    /\ pure = [g \in Groups |-> TRUE]

LoadNext == LoadCollectionsRun

LoadSpec == LoadInit /\ [][LoadNext]_vars

\* ------------------------------------------------------------------------
\* Claims about the loader (checked under LoadSpec)
\* ------------------------------------------------------------------------
\* source k compiles where this process compiles it
CompilesHere(k) == IF dev THEN compiles[k] ELSE fault # "widgets" /\ compiles[k]

\* the definitions of the sources that compile, in scan order
CompiledList ==
    SelectSeq([k \in 1..Cardinality(Sources) |-> Def(k, sources[k])],
              LAMBDA d : CompilesHere(d.name))

\* loadCollections() scanned the sources itself
Scanned == loadOut.status # "none" /\ (dev \/ ~browser)

C14_ReadFailureContained ==
    (loadOut.status # "none" /\ ~dev /\ ~browser) =>
        /\ loadOut.status = "returned"
        /\ \A i \in 1..Len(CompiledList) :
               readFailures[CompiledList[i].name] = 0 => InSeq(loadOut.list, CompiledList[i])

\* C15: a read or a structure-API call whose first attempts fail and that
\* succeeds within the retry budget makes loadCollections() succeed.
C15_RetryCoversEveryRead ==
    (/\ loadOut.status # "none"
     /\ ~dev
     /\ browser => apiFailures < MAX_RETRIES
     /\ ~browser => \A k \in Sources : readFailures[k] < MAX_RETRIES) =>
        loadOut.status = "returned"

\* ------------------------------------------------------------------------
\* createCategories(): the walk that builds categoryStructure
\* ------------------------------------------------------------------------
\* number of definitions handed to one pass
MaxDefs == 3

\* schema.path, split at '/'
TreePaths == {<<"a">>, <<"a", "x">>, <<"a", "y">>, <<"b", "z">>, <<"a", "x", "y">>}

\* schema.icon: absent, the loader's default, one of its own
TreeIcons == {"", "iconoir:info-empty", "mdi:star"}

\* a definition as createCategories reads it: n tells definitions apart
Schema(n, p, ic) == [name |-> n, path |-> p, icon |-> ic]

\* a walk that never finds an existing node
HasNode_Mut(nodes, q) == FALSE

\* `currentLevel[part]` is set: nodes are keyed by segment inside their
\* parent, so a node is identified by the prefix that leads to it
HasNode(nodes, q) == \E j \in 1..Len(nodes) : nodes[j].path = q

NodeIndex(nodes, q) == CHOOSE j \in 1..Len(nodes) : nodes[j].path = q

\* a node that is flagged when it is created
NewNode_Mut(q, index) ==
    [path |-> q, name |-> q[Len(q)],
     icon |-> IF index = 0 THEN "bi:collection" ELSE "bi:folder",
     collections |-> <<>>, isCollection |-> TRUE]

\* the entry of categoryConfig for a path
Override(q) == [icon |-> "mdi:folder-star", order |-> Len(q)]

\* `categoryConfig[currentPath] || { icon: index === 0 ? 'bi:collection' :
\* 'bi:folder', order: 999 }`
ConfigFor(q, index) ==
    IF q \in overridden THEN Override(q)
    ELSE [icon |-> IF index = 0 THEN "bi:collection" ELSE "bi:folder", order |-> 999]

\* `currentLevel[part] = { id, name: part, icon: config.icon,
\* subcategories: {}, collections: [] }`
NewNode(q, index) ==
    [path |-> q, name |-> q[Len(q)],
     icon |-> ConfigFor(q, index).icon,
     collections |-> <<>>, isCollection |-> FALSE]

\* an attachment that replaces the list
Attach_Mut(node, d) ==
    [node EXCEPT !.collections = <<d>>,
                 !.icon = IF d.icon # "" THEN d.icon ELSE @,
                 !.isCollection = TRUE]

\* `collections.push(collection); icon = collection.icon || icon;
\* isCollection = true`
Attach(node, d) ==
    [node EXCEPT !.collections = Append(@, d),
                 !.icon = IF d.icon # "" THEN d.icon ELSE @,
                 !.isCollection = TRUE]

\* an attachment at the first segment
IsLast_Mut(p, index) == index = 0

\* `index === pathParts.length - 1`
IsLast(p, index) == index = Len(p) - 1

\* `for (const [index, part] of pathParts.entries())`
RECURSIVE WalkPath(_, _, _)
WalkPath(nodes, d, index) ==
    IF index >= Len(d.path) THEN nodes
    ELSE LET q == Prefix(d.path, index + 1)
             created == IF HasNode(nodes, q) THEN nodes ELSE Append(nodes, NewNode(q, index))
             j == NodeIndex(created, q)
             attached == IF IsLast(d.path, index)
                         THEN [created EXCEPT ![j] = Attach(@, d)]
                         ELSE created
         IN  WalkPath(attached, d, index + 1)

\* `for (const collection of collectionsList)`: a definition without path
\* is skipped; the nodes of categoryStructure in creation order
RECURSIVE CategoryStructure(_, _)
CategoryStructure(list, nodes) ==
    IF list = <<>> THEN nodes
    ELSE IF Head(list).path = <<>> THEN CategoryStructure(Tail(list), nodes)
    ELSE CategoryStructure(Tail(list), WalkPath(nodes, Head(list), 0))

\* processCategory is applied to a node only if neither the node nor one
\* of its ancestors is flagged isCollection
Emitted(nodes, q) ==
    \A i \in 1..Len(q) :
        \A j \in 1..Len(nodes) : nodes[j].path = Prefix(q, i) => ~nodes[j].isCollection

\* processCategory: the returned Category has no isCollection field
ProcessCategory(node) ==
    [path |-> node.path, name |-> node.name, icon |-> node.icon,
     collections |-> node.collections]

\* categoryArray with its nested subcategories, flattened
CategoryArrayOf(nodes) ==
    LET kept == SelectSeq(nodes, LAMBDA n : Emitted(nodes, n.path))
    IN  [i \in 1..Len(kept) |-> ProcessCategory(kept[i])]

\* `Object.entries(categoryStructure).forEach(([path, category]) =>
\* this.categoryCache.set(path, ...))`
CategoryCacheOfNodes(nodes) ==
    LET tops == SelectSeq(nodes, LAMBDA n : Len(n.path) = 1)
    IN  [i \in 1..Len(tops) |-> Entry(CatKey(tops[i].path[1]), 1, now)]

\* one createCategories() call that finds no 'cms:categories' in tier 2
CreateCategoriesRun ==
    /\ ~structure.built
    /\ ~(Tier2 /\ RedisListHit(redisCats))
    /\ LET nodes == CategoryStructure(treeIn, <<>>)
           categoryArray == CategoryArrayOf(nodes)
       IN  /\ structure' = [built |-> TRUE, nodes |-> nodes, array |-> categoryArray]
           /\ redisCats' = IF Tier2 THEN RedisList(categoryArray) ELSE redisCats
           /\ cache' = [cache EXCEPT !["categoryCache"] = CategoryCacheOfNodes(nodes)]
           /\ loadedCategories' = Published(passCount, categoryArray)
    /\ UNCHANGED <<initialized, initializationPromise, loadedCollections>>
    /\ UNCHANGED <<redisKV, redisAll, stores, histVars>>
    /\ UNCHANGED <<loaderVars, refreshVars, lazyVars, fieldVars, evalVars, lateVars, treeIn>>
    /\ UNCHANGED <<envVars, widgetVars, taskVars, waitVars, cacheTaskVars>>

\* any list of up to MaxDefs definitions with paths is handed to the pass;
\* createCategories does not read `dev`
TreeInit ==
    /\ CommonInit
    /\ OtherIdle
    /\ NormIdle
    /\ ConfigIdle
    /\ RetryIdle
    /\ LoaderIdle
    /\ RefreshIdle
    /\ FieldIdle
    /\ EvalIdle
    /\ dev = FALSE
    /\ fault = "none"
    /\ sources = [k \in Sources |-> 1]
    /\ \E n \in 0..MaxDefs :
         \E ps \in [1..n -> TreePaths] :
           \E ics \in [1..n -> TreeIcons] :
             treeIn = [i \in 1..n |-> Schema(i, ps[i], ics[i])]
    /\ structure = NotBuilt
    /\ widgetsInitPromise = IF browser THEN "null" ELSE "pending"
    /\ initializationPromise = IF browser THEN "null" ELSE "pending"
    /\ ipc = IF browser THEN "none" ELSE "widgets"
    /\ cache = [g \in Groups |-> <<>>]
    /\ redisKV = [k \in TierKeys |-> NoEntry]
    /\ origin = [g \in Groups |-> [k \in OpKeys |-> NoOrigin]]
    /\ inserted = [g \in Groups |-> <<>>]
    /\ pure = [g \in Groups |-> TRUE]

TreeNext == CreateCategoriesRun

TreeSpec == TreeInit /\ [][TreeNext]_vars

\* ------------------------------------------------------------------------
\* Claims about the category structure (checked under TreeSpec)
\* ------------------------------------------------------------------------
NodesAt(q) == {j \in 1..Len(structure.nodes) : structure.nodes[j].path = q}

\* d is found by walking the segments of its path from a root node
Reachable(d) ==
    /\ \A i \in 1..Len(d.path) : NodesAt(Prefix(d.path, i)) # {}
    /\ \E j \in NodesAt(d.path) : InSeq(structure.nodes[j].collections, d)

\* C16: after a construction pass every definition is reachable by walking
\* the segments of its own path from a root node, and a node's definition
\* list holds a definition only if the node's full path is that
\* definition's path.
C16_TreeReachability ==
    structure.built =>
        /\ \A i \in 1..Len(treeIn) : Reachable(treeIn[i])
        /\ \A j \in 1..Len(structure.nodes) :
             \A c \in 1..Len(structure.nodes[j].collections) :
                 structure.nodes[j].collections[c].path = structure.nodes[j].path

\* a definition three segments deep and one that ends at its parent
C16_Witness ==
    /\ structure.built
    /\ Len(treeIn) = 2
    /\ treeIn[1].path = <<"a", "x", "y">>
    /\ treeIn[2].path = <<"a", "x">>
    /\ Len(structure.nodes) = 3
    /\ Reachable(treeIn[1])
    /\ Reachable(treeIn[2])

\* C17: a node of the built structure is flagged isCollection if and only
\* if its definition list is non-empty; an intermediate node has an empty
\* list and no flag.
C17_LeafFlag ==
    structure.built =>
        \A j \in 1..Len(structure.nodes) :
            structure.nodes[j].isCollection <=> structure.nodes[j].collections # <<>>

\* a flagged leaf below an unflagged intermediate node
C17_Witness ==
    /\ structure.built
    /\ \E j, k \in 1..Len(structure.nodes) :
         /\ structure.nodes[j].isCollection
         /\ structure.nodes[j].collections # <<>>
         /\ structure.nodes[k].path = Prefix(structure.nodes[j].path, 1)
         /\ ~structure.nodes[k].isCollection
         /\ structure.nodes[k].collections = <<>>

DistinctPaths == \A i, k \in 1..Len(treeIn) : treeIn[i].path = treeIn[k].path => i = k

\* the prefixes of the paths of the pass
AllPrefixes ==
    UNION {{Prefix(treeIn[i].path, n) : n \in 1..Len(treeIn[i].path)} : i \in 1..Len(treeIn)}

\* C18: for definitions with pairwise distinct paths the structure has
\* exactly one node for each path prefix and no other node; each
\* definition is alone in the leaf at its path, and a node that is only a
\* shared prefix has an empty definition list.
C18_OneNodePerPrefix ==
    (structure.built /\ DistinctPaths) =>
        /\ \A q \in AllPrefixes : Cardinality(NodesAt(q)) = 1
        /\ Len(structure.nodes) = Cardinality(AllPrefixes)
        /\ \A i \in 1..Len(treeIn) :
             \A j \in NodesAt(treeIn[i].path) : structure.nodes[j].collections = <<treeIn[i]>>
        /\ \A j \in 1..Len(structure.nodes) :
             (\A i \in 1..Len(treeIn) : treeIn[i].path # structure.nodes[j].path) =>
                 structure.nodes[j].collections = <<>>

\* paths a/x, a/y, b/z: roots a and b, leaves x and y under a, leaf z under
\* b, a without definitions
C18_Witness ==
    /\ structure.built
    /\ [i \in 1..Len(treeIn) |-> treeIn[i].path] = << <<"a", "x">>, <<"a", "y">>, <<"b", "z">> >>
    /\ [j \in 1..Len(structure.nodes) |-> structure.nodes[j].path] =
           << <<"a">>, <<"a", "x">>, <<"a", "y">>, <<"b">>, <<"b", "z">> >>
    /\ structure.nodes[1].collections = <<>>
    /\ structure.nodes[2].collections = <<treeIn[1]>>
    /\ structure.nodes[3].collections = <<treeIn[2]>>
    /\ structure.nodes[5].collections = <<treeIn[3]>>

\* the definitions of the pass whose path is q, in the order of the pass
DefsAt(q) == SelectSeq(treeIn, LAMBDA d : d.path = q)

\* C19: when two or more definitions of one pass have the same full path,
\* there is a single node for that path and its definition list holds all
\* of them.
C19_MultiDefinitionLeaf ==
    structure.built =>
        \A i \in 1..Len(treeIn) :
            Len(DefsAt(treeIn[i].path)) >= 2 =>
                /\ Cardinality(NodesAt(treeIn[i].path)) = 1
                /\ \A j \in NodesAt(treeIn[i].path) :
                       structure.nodes[j].collections = DefsAt(treeIn[i].path)

\* two definitions at a/x, both in the list of the one node a/x
C19_Witness ==
    /\ structure.built
    /\ Len(treeIn) = 2
    /\ treeIn[1].path = <<"a", "x">>
    /\ treeIn[2].path = <<"a", "x">>
    /\ Len(structure.nodes) = 2
    /\ structure.nodes[2].collections = <<treeIn[1], treeIn[2]>>

\* ------------------------------------------------------------------------
\* updateCollections(false) called twice in a row
\* ------------------------------------------------------------------------
\* the values createRandomID() can return
IdSet == {1, 2}

\* the id the schema of source k declares
OwnId(k) == k

\* a compiled definition with its id: `id: schema.id || createRandomID()`
IdDef(d, id) == [name |-> d.name, ver |-> d.ver, id |-> id]

\* `id: parseInt(cat.id)` of a Category of categoryArray
WithId(cat, id) ==
    [path |-> cat.path, name |-> cat.name, icon |-> cat.icon,
     collections |-> cat.collections, id |-> id]

\* getCollectionData() for the lists a call assigned
CollectionData(cols, cats) == [collections |-> cols, categories |-> cats]

\* one updateCollections(false) call from call to return, followed by
\* getCollectionData(); ids and nids are the results of the createRandomID()
\* calls of the pass
UpdateCollectionsRun ==
    /\ rpc \in {"idle", "once"}
    /\ rpc' = IF rpc = "idle" THEN "once" ELSE "twice"
    /\ passCount' = passCount + 1
    /\ \E ids \in [Sources -> IdSet] :
         LET hitAll == Tier2 /\ RedisListHit(redisAll)
             scan == ScanSources
             compiled == [i \in 1..Len(scan) |->
                            IdDef(scan[i], IF declaresId[scan[i].name]
                                           THEN OwnId(scan[i].name)
                                           ELSE ids[scan[i].name])]
             cols == IF hitAll THEN redisAll.value ELSE compiled
             collectionCache == IF hitAll THEN cache["collectionCache"]
                                ELSE SetAllLocal(cache["collectionCache"], cols)
             hitCats == Tier2 /\ RedisListHit(redisCats)
             categoryArray == CategoryArray(CollectionsList(collectionCache))
         IN  \E nids \in [1..Len(categoryArray) -> IdSet] :
               LET cats == IF hitCats THEN redisCats.value
                           ELSE [i \in 1..Len(categoryArray) |->
                                    WithId(categoryArray[i], nids[i])]
               IN  /\ redisKV' = IF Tier2 /\ ~hitAll THEN SetAllRedis(redisKV, cols) ELSE redisKV
                   /\ redisAll' = IF Tier2 /\ ~hitAll THEN RedisList(cols) ELSE redisAll
                   /\ redisCats' = IF Tier2 /\ ~hitCats THEN RedisList(cats) ELSE redisCats
                   /\ cache' = [cache EXCEPT
                                  !["collectionCache"] = collectionCache,
                                  !["categoryCache"] =
                                      IF hitCats THEN @
                                      ELSE CategoryCacheOf(CollectionsList(collectionCache))]
                   /\ loadedCollections' = Published(passCount + 1, cols)
                   /\ loadedCategories' = Published(passCount + 1, cats)
                   /\ stores' = SetStores(cols, cats)
                   /\ snaps' = Append(snaps, CollectionData(cols, cats))
                   /\ IF ~dev /\ ~browser /\ ~hitAll /\ widgetsInitPromise \in {"null", "pending"}
                      THEN /\ widgetsInitPromise' = "resolved"
                           /\ widgetsInitialized' = TRUE
                      ELSE UNCHANGED widgetVars
    /\ UNCHANGED <<initialized, initializationPromise, declaresId>>
    /\ UNCHANGED <<initPasses, origin, inserted, pure>>
    /\ UNCHANGED <<loaderVars, treeVars, lazyVars, fieldVars, evalVars, lateVars>>
    /\ UNCHANGED <<envVars, taskVars, waitVars, cacheTaskVars>>

\* a manager that has loaded nothing yet; every source compiles and can be
\* read, tier 2 is absent or works
RefreshInit ==
    /\ CommonInit
    /\ OtherIdle
    /\ NormIdle
    /\ ConfigIdle
    /\ RetryIdle
    /\ LoaderIdle
    /\ TreeIdle
    /\ FieldIdle
    /\ EvalIdle
    /\ dev \in BOOLEAN
    /\ fault = "none"
    /\ sources = [k \in Sources |-> 1]
    /\ rpc = "idle"
    /\ snaps = <<>>
    /\ declaresId \in [Sources -> BOOLEAN]
    /\ widgetsInitPromise = IF browser THEN "null" ELSE "pending"
    /\ initializationPromise = IF browser THEN "null" ELSE "pending"
    /\ ipc = IF browser THEN "none" ELSE "widgets"
    /\ cache = [g \in Groups |-> <<>>]
    /\ redisKV = [k \in TierKeys |-> NoEntry]
    /\ origin = [g \in Groups |-> [k \in OpKeys |-> NoOrigin]]
    /\ inserted = [g \in Groups |-> <<>>]
    /\ pure = [g \in Groups |-> TRUE]

RefreshNext == UpdateCollectionsRun

RefreshSpec == RefreshInit /\ [][RefreshNext]_vars

\* ------------------------------------------------------------------------
\* Claims about refresh (checked under RefreshSpec)
\* ------------------------------------------------------------------------
\* C20: after two updateCollections(false) calls in a row with unchanged
\* sources, getCollectionData() after the second call equals
\* getCollectionData() after the first call, identifiers included.
C20_RefreshIdempotent == rpc = "twice" => snaps[1] = snaps[2]

\* ------------------------------------------------------------------------
\* Claims about forced and non-forced refresh (checked under Spec)
\* ------------------------------------------------------------------------
\* p is in an updateCollections(true) call
Forced(p) == p \in Updaters /\ urecompile[p]

\* the recompile branch of call p has just run
ForcedClear(p) == Forced(p) /\ upc[p] = "start" /\ upc'[p] = "load"

\* createCategories of call p has just produced its list
ForcedCategories(p) ==
    Forced(p) /\ upc[p] = "cats" /\ upc'[p] \in {"catsAssign", "publish"}

\* C21: updateCollections(true) empties, before it reloads, the memory tier
\* and tier 2 of the definitions and of the categories, and the categories
\* of the call are those of the definitions the call scanned.
C21_ForcedInvalidatesAll ==
    [][\A p \in Procs :
          /\ ForcedClear(p) =>
                /\ cache'["collectionCache"] = <<>>
                /\ cache'["categoryCache"] = <<>>
                /\ Tier2 => (~RedisListHit(redisAll') /\ ~RedisListHit(redisCats'))
          /\ ForcedCategories(p) => ucats'[p] = CategoryArray(ucols[p])]_vars

\* every definition source has an unexpired entry in collectionCache
AllCached ==
    \A k \in Sources :
        sources[k] # 0 => LocalRead(cache["collectionCache"], k) # NULL

\* loadCollections of call p has just read and compiled the sources
Scans(p) == upc[p] = "load" /\ upc'[p] = "assign"

\* C22: an updateCollections(false) that finds every definition present
\* and unexpired in the cache reads and compiles no source.
C22_RefreshServesFromCache ==
    [][\A p \in Procs : (~urecompile[p] /\ AllCached) => ~Scans(p)]_vars

\* call p has just returned / thrown
Returns(p) == upc[p] # "returned" /\ upc'[p] = "returned"

Throws(p) == upc[p] # "threw" /\ upc'[p] = "threw"

\* a step of call p that is not its return
Inside(p) == upc[p] \notin {"idle", "returned", "threw"} /\ upc'[p] # upc[p] /\ ~Returns(p)

\* C23: an updateCollections call that returns has, by then, set the stores
\* to the definitions and categories of its pass (keyed by name) and reset
\* the selection; no other step of a call, a throw included, changes a
\* store.
C23_PublishOnSuccess ==
    [][\A p \in Procs :
          /\ Returns(p) =>
                /\ stores'.collections = CollectionRecord(ucols[p])
                /\ stores'.categories = CategoryRecord(ucats[p])
                /\ stores'.selection = NoSelection
          /\ (Throws(p) \/ Inside(p)) => stores' = stores]_vars

\* a returned call whose definitions and category are in the stores, with
\* the selection empty
C23_Witness ==
    \E p \in Procs :
        /\ upc[p] = "returned"
        /\ ucols[p] # <<>>
        /\ ucats[p] # <<>>
        /\ stores.collections = CollectionRecord(ucols[p])
        /\ stores.categories = CategoryRecord(ucats[p])
        /\ DOMAIN stores.categories # {}
        /\ stores.selection = NoSelection

\* ------------------------------------------------------------------------
\* lazyLoadCollection(name)
\* ------------------------------------------------------------------------
\* lazyLoadCollection calls made
MaxLazyCalls == 2

\* getCacheValue(cacheKey, collectionCache): the value it returns
CachedValue(n) ==
    LET r2 == IF Tier2 THEN RedisRead(redisKV[LazyKey(n)]) ELSE NULL
    IN  IF r2 # NULL THEN r2 ELSE LocalRead(cache["collectionCache"], LazyKey(n))

\* getCacheValue(cacheKey, collectionCache): collectionCache after it
CacheAfterGet(n) ==
    LET r2 == IF Tier2 THEN RedisRead(redisKV[LazyKey(n)]) ELSE NULL
    IN  IF r2 # NULL
        THEN MapSet(cache["collectionCache"], LazyKey(n), Entry(LazyKey(n), r2, now))
        ELSE LocalAfterRead(cache["collectionCache"], LazyKey(n))

\* `await this.readFile(path)` returns the content of the source of n
LazyReadSucceeds(n) == sources[n] # 0 /\ ReadFile(n)

\* an increment that forgets the count so far
CountAccess_Mut(n) == [collectionAccessCount EXCEPT ![n] = 1]

\* `this.collectionAccessCount.set(name,
\* (this.collectionAccessCount.get(name) || 0) + 1)`
CountAccess(n) == [collectionAccessCount EXCEPT ![n] = @ + 1]

\* what lazyLoadCollection(n) does to the cache tiers, the access counter
\* and the widget state, and what it returns
LazyBody(n) ==
    /\ lazyCalls < MaxLazyCalls
    /\ lazyCalls' = lazyCalls + 1
    /\ IF TierFails
       THEN \* `await this.getCacheValue(...)` rejects outside the try
            /\ lazyOut' = [status |-> "threw", name |-> n, ret |-> NULL]
            /\ UNCHANGED <<cache, redisKV, collectionAccessCount, reads, widgetVars>>
       ELSE IF CachedValue(n) # NULL
       THEN /\ lazyOut' = [status |-> "returned", name |-> n, ret |-> CachedValue(n)]
            /\ cache' = [cache EXCEPT !["collectionCache"] = CacheAfterGet(n)]
            /\ collectionAccessCount' = CountAccess(n)
            /\ UNCHANGED <<redisKV, reads, widgetVars>>
       ELSE /\ reads' = [reads EXCEPT ![n] = @ + 1]
            /\ IF ~LazyReadSucceeds(n)
               THEN \* readFile throws: 'Failed to lazy load collection'
                    /\ lazyOut' = [status |-> "threw", name |-> n, ret |-> NULL]
                    /\ cache' = [cache EXCEPT !["collectionCache"] = CacheAfterGet(n)]
                    /\ UNCHANGED <<redisKV, collectionAccessCount, widgetVars>>
               ELSE /\ IF widgetsInitPromise \in {"null", "pending"}
                       THEN /\ widgetsInitPromise' =
                                   IF fault = "widgets" THEN "rejected" ELSE "resolved"
                            /\ widgetsInitialized' = (fault # "widgets")
                       ELSE UNCHANGED widgetVars
                    /\ IF ProcessCollectionFile(n) = <<>>
                       THEN \* no schema: `return null`
                            /\ lazyOut' = [status |-> "returned", name |-> n, ret |-> NULL]
                            /\ cache' = [cache EXCEPT !["collectionCache"] = CacheAfterGet(n)]
                            /\ UNCHANGED <<redisKV, collectionAccessCount>>
                       ELSE /\ lazyOut' = [status |-> "returned", name |-> n, ret |-> sources[n]]
                            /\ redisKV' = IF Tier2
                                          THEN [redisKV EXCEPT ![LazyKey(n)] =
                                                   RedisEntry(sources[n], REDIS_TTL)]
                                          ELSE redisKV
                            /\ cache' = [cache EXCEPT !["collectionCache"] =
                                            SetLocal(CacheAfterGet(n), LazyKey(n), sources[n])]
                            /\ collectionAccessCount' = CountAccess(n)
    /\ UNCHANGED <<redisAll, redisCats, stores, histVars>>
    /\ UNCHANGED <<loaderVars, treeVars, refreshVars, fieldVars, evalVars, lateVars>>
    /\ UNCHANGED <<envVars, taskVars, waitVars, cacheTaskVars>>

\* a lazyLoadCollection that gives up the Ready state when it does not
\* return a definition
LazyLoadCollection_Mut(n) ==
    /\ LazyBody(n)
    /\ initialized' = (initialized /\ lazyOut'.ret # NULL)
    /\ UNCHANGED <<initializationPromise, loadedCollections, loadedCategories>>

\* one lazyLoadCollection(n) call, from call to return or throw
LazyLoadCollection(n) ==
    /\ LazyBody(n)
    /\ UNCHANGED <<initialized, initializationPromise, loadedCollections, loadedCategories>>

\* the definitions of a load pass made while every source was present
AllDefs == [k \in 1..Cardinality(Sources) |-> Def(k, 1)]

\* the constructor's initialization is still running, or nothing was
\* started (browser)
Constructing ==
    /\ FreshManager
    /\ widgetsInitPromise = IF browser THEN "null" ELSE "pending"
    /\ initializationPromise = IF browser THEN "null" ELSE "pending"
    /\ ipc = IF browser THEN "none" ELSE "widgets"
    /\ cache = [g \in Groups |-> <<>>]
    /\ redisKV = [k \in TierKeys |-> NoEntry]

\* the constructor's initialization has succeeded: one load pass at time 0
Ready ==
    /\ ~browser
    /\ fault # "widgets"
    /\ widgetsInitialized = TRUE
    /\ widgetsInitPromise = "resolved"
    /\ initialized = TRUE
    /\ initializationPromise = "fulfilled"
    /\ ipc = "done"
    /\ passCount = 1
    /\ initPasses = 1
    /\ loadedCollections = Published(1, AllDefs)
    /\ loadedCategories = Published(1, CategoryArray(AllDefs))
    /\ cache = [g \in Groups |->
                  IF g = "collectionCache" THEN SetAllLocal(<<>>, AllDefs)
                  ELSE IF g = "categoryCache" THEN CategoryCacheOf(AllDefs)
                  ELSE <<>>]
    /\ redisKV = IF Tier2 THEN SetAllRedis([k \in TierKeys |-> NoEntry], AllDefs)
                 ELSE [k \in TierKeys |-> NoEntry]
    /\ redisAll = IF Tier2 THEN RedisList(AllDefs) ELSE NoList
    /\ redisCats = IF Tier2 THEN RedisList(CategoryArray(AllDefs)) ELSE NoList

\* the constructor's initialization has failed
Failed ==
    /\ ~browser
    /\ fault # "none"
    /\ widgetsInitialized = (fault # "widgets")
    /\ widgetsInitPromise = IF fault = "widgets" THEN "rejected" ELSE "resolved"
    /\ initialized = FALSE
    /\ loadedCollections = Published(0, <<>>)
    /\ loadedCategories = Published(0, <<>>)
    /\ redisAll = NoList
    /\ redisCats = NoList
    /\ passCount = 1
    /\ initPasses = 1
    /\ initializationPromise = "rejected"
    /\ ipc = "failed"
    /\ cache = [g \in Groups |-> <<>>]
    /\ redisKV = [k \in TierKeys |-> NoEntry]

\* a manager in any state of its initialization; sources that exist or
\* have vanished, compile or not, can be read at once, after a retry or
\* not at all; lazyLoadCollection does not read `dev`
LazyInit ==
    /\ BaseInit
    /\ OtherIdle
    /\ NormIdle
    /\ ConfigIdle
    /\ RetryIdle
    /\ apiFailures = 0
    /\ loadOut = [status |-> "none", list |-> <<>>]
    /\ TreeIdle
    /\ RefreshIdle
    /\ FieldIdle
    /\ EvalIdle
    /\ dev = FALSE
    /\ fault \in Faults \ {"provider"}
    /\ fault = "redis" => Tier2
    /\ sources \in [Sources -> {0, 1}]
    /\ compiles \in [Sources -> BOOLEAN]
    /\ readFailures \in [Sources -> {0, 1, MAX_RETRIES}]
    /\ Constructing \/ Ready \/ Failed
    /\ origin = [g \in Groups |-> [k \in OpKeys |-> NoOrigin]]
    /\ inserted = [g \in Groups |-> <<>>]
    /\ pure = [g \in Groups |-> TRUE]

LazyNext ==
    \/ \E d \in TickSteps : Tick(d)
    \/ \E n \in Sources : LazyLoadCollection(n)

LazySpec == LazyInit /\ [][LazyNext]_vars

\* ------------------------------------------------------------------------
\* Claims about lazyLoadCollection (checked under LazySpec)
\* ------------------------------------------------------------------------
\* lazyLoadCollection(n) has just been called and has returned or thrown
LazyCall(n) == lazyCalls' = lazyCalls + 1 /\ lazyOut'.name = n

\* neither tier holds an entry under the cache key of n
NotCached(n) ==
    /\ ~Has(cache["collectionCache"], LazyKey(n))
    /\ redisKV[LazyKey(n)].value = NULL

\* C24: lazyLoadCollection(name) for a name that is not cached and whose
\* source no longer exists returns null, does not throw, and leaves the
\* cache and the access counter as they were.
C24_VanishedSourceIsAbsent ==
    [][\A n \in Sources :
          (LazyCall(n) /\ NotCached(n) /\ sources[n] = 0 /\ ~TierFails) =>
              /\ lazyOut'.status = "returned"
              /\ lazyOut'.ret = NULL
              /\ cache' = cache
              /\ redisKV' = redisKV
              /\ collectionAccessCount' = collectionAccessCount]_vars

\* a full load pass has an unexpired entry for n in collectionCache
LoadedByPass(n) == LocalRead(cache["collectionCache"], n) # NULL

\* C25: a lazyLoadCollection(name) that finds the name cached, by an
\* earlier lazyLoadCollection or by a full load pass, returns the cached
\* definition and reads no source; on a miss it reads the source once and
\* stores the definition it returns under the name's cache key.
C25_LazyCacheProtocol ==
    [][\A n \in Sources :
          (LazyCall(n) /\ ~TierFails) =>
              /\ (CachedValue(n) # NULL \/ LoadedByPass(n)) =>
                    /\ reads' = reads
                    /\ lazyOut'.status = "returned"
                    /\ lazyOut'.ret \in {CachedValue(n), LocalRead(cache["collectionCache"], n)} \ {NULL}
              /\ (CachedValue(n) = NULL /\ ~LoadedByPass(n)) =>
                    /\ reads' = [reads EXCEPT ![n] = @ + 1]
                    /\ (lazyOut'.status = "returned" /\ lazyOut'.ret # NULL) =>
                          LocalRead(cache'["collectionCache"], LazyKey(n)) = lazyOut'.ret]_vars

\* what a waitForInitialization() called now reports: it returns at once,
\* waits, resolves or rejects with initializationPromise
WaitReport ==
    IF initializationPromise = "null" THEN "resolved"
    ELSE IF initializationPromise = "fulfilled" THEN "resolved"
    ELSE IF initializationPromise = "rejected" THEN "rejected"
    ELSE "waiting"

\* C26: a lazyLoadCollection call that throws or returns null leaves
\* initialized, loadedCollections and loadedCategories as they were, and
\* with them what waitForInitialization() reports.
C26_LazyFailureIsLocal ==
    [][\A n \in Sources :
          (LazyCall(n) /\ (lazyOut'.status = "threw" \/ lazyOut'.ret = NULL)) =>
              /\ initialized' = initialized
              /\ loadedCollections' = loadedCollections
              /\ loadedCategories' = loadedCategories
              /\ WaitReport' = WaitReport]_vars

\* a Ready manager with published definitions after a lazy load that threw
C26_Witness ==
    /\ lazyOut.status = "threw"
    /\ initialized
    /\ loadedCollections = Published(1, AllDefs)
    /\ WaitReport = "resolved"

\* source k no longer exists and the scan of call p returned no definition
\* for it
AbsentFromScan(p, k) ==
    /\ sources[k] = 0
    /\ \A i \in 1..Len(ucols[p]) : ucols[p][i].name # k

\* loadCollections of call p has just assigned the list it scanned
AssignsScan(p) == upc[p] = "assign" /\ upc'[p] = "cats"

\* createCategories of call p has just built a structure
BuildsStructure(p) == upc[p] = "cats" /\ upc'[p] = "catsAssign"

\* C27: a definition whose source is absent from the scan of an
\* updateCollections call is not in the definitions the call assigns and
\* is not among the definitions attached to the nodes of the structure the
\* call builds.
C27_RemovalByAbsence ==
    [][\A p \in Procs : \A k \in Sources :
          AbsentFromScan(p, k) =>
              /\ AssignsScan(p) =>
                    \A i \in 1..Len(loadedCollections'.list) :
                        loadedCollections'.list[i].name # k
              /\ BuildsStructure(p) =>
                    \A i \in 1..Len(CollectionsList(cache["collectionCache"])) :
                        CollectionsList(cache["collectionCache"])[i].name # k]_vars

\* C28: a definition compiled again from the same source has the
\* identifier it was given by the first compile, whether or not the source
\* declares an id.
C28_IdentifierStable ==
    rpc = "twice" =>
        \A i \in 1..Len(snaps[1].collections) :
            \A j \in 1..Len(snaps[2].collections) :
                snaps[1].collections[i].name = snaps[2].collections[j].name =>
                    snaps[1].collections[i].id = snaps[2].collections[j].id

\* ---------------------------------------------------------------------
\* processCollectionFile: the fields of a compiled definition

MaxFields == 3

FieldIds == {1, 2}

\* an entry of `baseSchema.fields`: a field object, a widget placeholder
\* (an object with `__isWidgetPlaceholder`) whose resolution succeeds or
\* not, or null
PlainField(i) == [kind |-> "field", id |-> i, resolves |-> FALSE]

Placeholder(i, r) == [kind |-> "placeholder", id |-> i, resolves |-> r]

NullField == [kind |-> "null", id |-> 0, resolves |-> FALSE]

FieldEntries ==
    {PlainField(i) : i \in FieldIds}
        \cup {Placeholder(i, r) : i \in FieldIds, r \in BOOLEAN}
        \cup {NullField}

\* resolveWidgetPlaceholder(field): the widget field the placeholder names
ResolveWidgetPlaceholder(e) == [kind |-> "widget", id |-> e.id, resolves |-> TRUE]

\* a field callback without the try/catch: the placeholder that cannot be
\* resolved stays in the list
ProcessField_Mut(e) ==
    IF e.kind = "placeholder" /\ e.resolves THEN ResolveWidgetPlaceholder(e) ELSE e

\* the callback of `(baseSchema.fields || []).map(async (field) => ...)`:
\* a placeholder is resolved, `catch { return null }`; anything else is
\* returned as it is
ProcessField(e) ==
    IF e.kind = "placeholder"
    THEN IF e.resolves THEN ResolveWidgetPlaceholder(e) ELSE NullField
    ELSE e

\* `await Promise.all(fields.map(...))`: the results in the order of the
\* fields
ProcessedFields(fs) == [i \in 1..Len(fs) |-> ProcessField(fs[i])]

IsValidField(f) == f # NullField

\* `processedFields.filter((field) => field !== null)`
ValidFields(fs) == SelectSeq(ProcessedFields(fs), IsValidField)

\* `const processedSchema: Schema = { ..., name, ..., fields: validFields }`
ProcessedSchema(k, fs) == [name |-> k, ver |-> sources[k], fields |-> ValidFields(fs)]

\* `if (!browser && dbAdapter) await dbAdapter.createCollectionModel(...)`
\* throws
CreateCollectionModelThrows == ~browser /\ modelFails

\* one processCollectionFile(filePath, content) call for source k whose
\* schema has the fields fieldsIn: null when processModule yields no
\* schema or when anything outside the field callbacks throws, else the
\* processed schema
ProcessCollectionFileRun(k) ==
    /\ fieldsOut.status = "none"
    /\ IF widgetsInitPromise \in {"null", "pending"}
       THEN /\ widgetsInitPromise' = IF fault = "widgets" THEN "rejected" ELSE "resolved"
            /\ widgetsInitialized' = (fault # "widgets")
       ELSE UNCHANGED widgetVars
    /\ fieldsOut' =
          [status |-> "returned", name |-> k,
           def |-> IF ProcessCollectionFile(k) = <<>> \/ CreateCollectionModelThrows
                   THEN <<>>
                   ELSE <<ProcessedSchema(k, fieldsIn)>>]
    /\ UNCHANGED <<fieldsIn, modelFails>>
    /\ UNCHANGED <<loaderVars, treeVars, refreshVars, lazyVars, evalVars, lateVars>>
    /\ UNCHANGED <<envVars, managerVars, tierVars, stores, taskVars, waitVars,
                   cacheTaskVars, histVars>>

\* a server or browser manager, a schema with any list of up to MaxFields
\* entries
FieldInit ==
    /\ CommonInit
    /\ OtherIdle
    /\ NormIdle
    /\ ConfigIdle
    /\ RetryIdle
    /\ TreeIdle
    /\ RefreshIdle
    /\ EvalIdle
    /\ compiles \in [Sources -> BOOLEAN]
    /\ readFailures = [k \in Sources |-> 0]
    /\ apiFailures = 0
    /\ loadOut = [status |-> "none", list |-> <<>>]
    /\ dev = FALSE
    /\ fault \in {"none", "widgets"}
    /\ sources = [k \in Sources |-> 1]
    /\ \E n \in 0..MaxFields : fieldsIn \in [1..n -> FieldEntries]
    /\ modelFails \in BOOLEAN
    /\ fieldsOut = NoFieldsOut
    /\ widgetsInitPromise = IF browser THEN "null" ELSE "pending"
    /\ initializationPromise = IF browser THEN "null" ELSE "pending"
    /\ ipc = IF browser THEN "none" ELSE "widgets"
    /\ cache = [g \in Groups |-> <<>>]
    /\ redisKV = [k \in TierKeys |-> NoEntry]
    /\ origin = [g \in Groups |-> [k \in OpKeys |-> NoOrigin]]
    /\ inserted = [g \in Groups |-> <<>>]
    /\ pure = [g \in Groups |-> TRUE]

FieldNext == \E k \in Sources : ProcessCollectionFileRun(k)

FieldSpec == FieldInit /\ [][FieldNext]_vars

\* the fields of the source that are field objects, and the widgets of its
\* placeholders that resolve, in the order of the source
RECURSIVE KeptFields(_)
KeptFields(fs) ==
    IF fs = <<>> THEN <<>>
    ELSE (CASE Head(fs).kind = "field" -> <<Head(fs)>>
            [] Head(fs).kind = "placeholder" /\ Head(fs).resolves ->
                   <<[kind |-> "widget", id |-> Head(fs).id, resolves |-> TRUE]>>
            [] OTHER -> <<>>) \o KeptFields(Tail(fs))

\* the source evaluates to a schema and the model of the definition can be
\* created
Compilable(k) == ProcessModule(k) /\ ~CreateCollectionModelThrows

MaxEvals == 2

\* the values of the process state that a source text can reach through
\* the global scope (globalThis, process, ...)
AmbientValues == {0, 1}

\* what the text of a source does when it runs: it uses only the `widgets`
\* parameter, it also reads a global, or it also assigns one
Accesses == {"widgets", "reads", "writes"}

\* `moduleFunc(widgets)`: `new Function('widgets', body)` makes a function
\* whose scope is the global scope, so the body evaluates to module.exports
\* with whatever it read there
ModuleExports(k, amb) ==
    [schema |-> sources[k], seen |-> IF accesses[k] = "reads" THEN amb ELSE 0]

\* the global state after the body has run
AmbientAfter(k, amb) == IF accesses[k] = "writes" THEN 1 - amb ELSE amb

\* one processModule(content) call for the text of source k: null (here
\* NULL) when ensureWidgetsInitialized() rejects or the evaluation throws
ProcessModuleRun(k) ==
    /\ Len(evals) < MaxEvals
    /\ IF widgetsInitPromise \in {"null", "pending"}
       THEN /\ widgetsInitPromise' = IF fault = "widgets" THEN "rejected" ELSE "resolved"
            /\ widgetsInitialized' = (fault # "widgets")
       ELSE UNCHANGED widgetVars
    /\ IF ProcessModule(k)
       THEN /\ evals' = Append(evals, [name |-> k, before |-> ambient,
                                       module |-> <<ModuleExports(k, ambient)>>,
                                       after |-> AmbientAfter(k, ambient)])
            /\ ambient' = AmbientAfter(k, ambient)
       ELSE /\ evals' = Append(evals, [name |-> k, before |-> ambient,
                                       module |-> <<>>, after |-> ambient])
            /\ UNCHANGED ambient
    /\ UNCHANGED accesses
    /\ UNCHANGED <<loaderVars, treeVars, refreshVars, lazyVars, fieldVars, lateVars>>
    /\ UNCHANGED <<envVars, managerVars, tierVars, stores, taskVars, waitVars,
                   cacheTaskVars, histVars>>

\* the rest of the process changes its state between two evaluations
AmbientChange(v) ==
    /\ v # ambient
    /\ ambient' = v
    /\ UNCHANGED <<accesses, evals>>
    /\ UNCHANGED <<loaderVars, treeVars, refreshVars, lazyVars, fieldVars, lateVars>>
    /\ UNCHANGED <<envVars, widgetVars, managerVars, tierVars, stores, taskVars,
                   waitVars, cacheTaskVars, histVars>>

\* source texts of every kind, any process state
EvalInit ==
    /\ CommonInit
    /\ OtherIdle
    /\ NormIdle
    /\ ConfigIdle
    /\ RetryIdle
    /\ TreeIdle
    /\ RefreshIdle
    /\ FieldIdle
    /\ compiles \in [Sources -> BOOLEAN]
    /\ readFailures = [k \in Sources |-> 0]
    /\ apiFailures = 0
    /\ loadOut = [status |-> "none", list |-> <<>>]
    /\ dev = FALSE
    /\ fault \in {"none", "widgets"}
    /\ sources = [k \in Sources |-> 1]
    /\ accesses \in [Sources -> Accesses]
    /\ ambient \in AmbientValues
    /\ evals = <<>>
    /\ widgetsInitPromise = IF browser THEN "null" ELSE "pending"
    /\ initializationPromise = IF browser THEN "null" ELSE "pending"
    /\ ipc = IF browser THEN "none" ELSE "widgets"
    /\ cache = [g \in Groups |-> <<>>]
    /\ redisKV = [k \in TierKeys |-> NoEntry]
    /\ origin = [g \in Groups |-> [k \in OpKeys |-> NoOrigin]]
    /\ inserted = [g \in Groups |-> <<>>]
    /\ pure = [g \in Groups |-> TRUE]

EvalNext ==
    \/ \E k \in Sources : ProcessModuleRun(k)
    \/ \E v \in AmbientValues : AmbientChange(v)

EvalSpec == EvalInit /\ [][EvalNext]_vars

\* two evaluations of the same text give the same module
SameModule ==
    \A i \in 1..Len(evals) : \A j \in 1..Len(evals) :
        evals[i].name = evals[j].name => evals[i].module = evals[j].module

\* no evaluation changes the process state
AmbientKept == \A i \in 1..Len(evals) : evals[i].after = evals[i].before

\* C30: evaluating a source text neither reads nor changes state outside
\* the table it is passed: two evaluations of the same text in different
\* process states give the same module, and each leaves the process state
\* as it found it.
C30_IsolatedEvaluation == SameModule /\ AmbientKept

\* ---------------------------------------------------------------------
\* ensureWidgetsInitialized and its callers

\* an ensureWidgetsInitialized() that starts initializeWidgets() whenever
\* the flag is not set, whatever widgetsInitPromise holds
EnsureWidgetsInitialized_Mut(p) ==
    /\ epc[p] = "idle"
    /\ p = 0 => ~browser
    /\ IF widgetsInitialized
       THEN /\ epc' = [epc EXCEPT ![p] = "returned"]
            /\ UNCHANGED <<widgetsInitPromise, initWidgetsCalls>>
       ELSE /\ widgetsInitPromise' = "pending"
            /\ initWidgetsCalls' = initWidgetsCalls + 1
            /\ epc' = [epc EXCEPT ![p] = "awaiting"]
    /\ UNCHANGED widgetsInitialized
    /\ UNCHANGED <<loaderVars, treeVars, refreshVars, lazyVars, fieldVars, evalVars, retryVars, configVars, normVars, otherVars>>
    /\ UNCHANGED <<envVars, managerVars, tierVars, stores, taskVars, waitVars,
                   cacheTaskVars, histVars>>

\* ensureWidgetsInitialized() up to its await: `if (widgetsInitialized)
\* return; if (!widgetsInitPromise) widgetsInitPromise =
\* initializeWidgets().then(...).catch(...); await widgetsInitPromise`.
\* Caller 0 is the constructor's task, which exists on the server only.
EnsureWidgetsInitialized(p) ==
    /\ epc[p] = "idle"
    /\ p = 0 => ~browser
    /\ IF widgetsInitialized
       THEN /\ epc' = [epc EXCEPT ![p] = "returned"]
            /\ UNCHANGED <<widgetsInitPromise, initWidgetsCalls>>
       ELSE /\ IF widgetsInitPromise = "null"
               THEN /\ widgetsInitPromise' = "pending"
                    /\ initWidgetsCalls' = initWidgetsCalls + 1
               ELSE UNCHANGED <<widgetsInitPromise, initWidgetsCalls>>
            /\ epc' = [epc EXCEPT ![p] = "awaiting"]
    /\ UNCHANGED widgetsInitialized
    /\ UNCHANGED <<loaderVars, treeVars, refreshVars, lazyVars, fieldVars, evalVars, retryVars, configVars, normVars, otherVars>>
    /\ UNCHANGED <<envVars, managerVars, tierVars, stores, taskVars, waitVars,
                   cacheTaskVars, histVars>>

\* `await widgetsInitPromise` resumes: the call returns or throws the
\* rejection
EnsureWidgetsInitializedResume(p) ==
    /\ epc[p] = "awaiting"
    /\ widgetsInitPromise \in {"resolved", "rejected"}
    /\ epc' = [epc EXCEPT ![p] = IF widgetsInitPromise = "resolved"
                                 THEN "returned" ELSE "threw"]
    /\ UNCHANGED <<initWidgetsCalls, widgetVars>>
    /\ UNCHANGED <<loaderVars, treeVars, refreshVars, lazyVars, fieldVars, evalVars, retryVars, configVars, normVars, otherVars>>
    /\ UNCHANGED <<envVars, managerVars, tierVars, stores, taskVars, waitVars,
                   cacheTaskVars, histVars>>

\* processModule after `await ensureWidgetsInitialized()`: the text is
\* evaluated by `new Function(...)`; when the await threw, the catch
\* returns null without evaluating
ProcessModuleAfterEnsure(p) ==
    /\ p # 0
    /\ epc[p] \in {"returned", "threw"}
    /\ epc' = [epc EXCEPT ![p] = IF epc[p] = "returned" THEN "evaluated" ELSE "null"]
    /\ UNCHANGED <<initWidgetsCalls, widgetVars>>
    /\ UNCHANGED <<loaderVars, treeVars, refreshVars, lazyVars, fieldVars, evalVars, retryVars, configVars, normVars, otherVars>>
    /\ UNCHANGED <<envVars, managerVars, tierVars, stores, taskVars, waitVars,
                   cacheTaskVars, histVars>>

\* the module as it is after import: no widget initialization started, no
\* manager constructed
EnsureInit ==
    /\ CommonInit
    /\ OtherIdle
    /\ NormIdle
    /\ ConfigIdle
    /\ RetryIdle
    /\ LoaderIdle
    /\ TreeIdle
    /\ RefreshIdle
    /\ FieldIdle
    /\ EvalIdle
    /\ dev \in BOOLEAN
    /\ fault \in {"none", "widgets"}
    /\ sources = [k \in Sources |-> 1]
    /\ widgetsInitPromise = "null"
    /\ initializationPromise = "null"
    /\ ipc = "none"
    /\ cache = [g \in Groups |-> <<>>]
    /\ redisKV = [k \in TierKeys |-> NoEntry]
    /\ origin = [g \in Groups |-> [k \in OpKeys |-> NoOrigin]]
    /\ inserted = [g \in Groups |-> <<>>]
    /\ pure = [g \in Groups |-> TRUE]

EnsureNext ==
    \/ \E p \in EnsureCallers : EnsureWidgetsInitialized(p)
    \/ WidgetsInitSettle
    \/ \E p \in EnsureCallers : EnsureWidgetsInitializedResume(p)
    \/ \E p \in EnsureCallers : ProcessModuleAfterEnsure(p)

EnsureSpec == EnsureInit /\ [][EnsureNext]_vars

\* C31: initializeWidgets() is invoked at most once whatever the order of
\* the ensureWidgetsInitialized() callers, and a processModule call
\* evaluates its text only when the widget initialization has succeeded.
C31_WidgetsSingleFlight ==
    /\ initWidgetsCalls <= 1
    /\ \A p \in EnsureCallers : epc[p] = "evaluated" => widgetsInitialized

\* two processModule calls have evaluated their text, one of them having
\* called after the initialization was over, with one initializeWidgets()
C31_Witness ==
    /\ initWidgetsCalls = 1
    /\ epc[1] = "evaluated"
    /\ epc[2] = "evaluated"
    /\ epc[0] = "returned"

\* a failed initialization: every caller, early or late, got the rejection
\* and initializeWidgets() was not tried again
C31_WitnessFailed ==
    /\ initWidgetsCalls = 1
    /\ widgetsInitPromise = "rejected"
    /\ epc[1] = "null"
    /\ epc[2] = "null"

\* ---------------------------------------------------------------------
\* retryOperation

RETRY_DELAY == 1000

\* what invocation j of the operation does: 0 when it returns, else the
\* error it throws
RetryErrors == {1, 2}

\* the value invocation j returns
RetryValue(j) == 10 + j

RECURSIVE Pow2(_)
Pow2(n) == IF n = 0 THEN 1 ELSE 2 * Pow2(n - 1)

\* retryOperation is called with a budget
RetryCall ==
    /\ retry.pc = "idle"
    /\ retry' = [retry EXCEPT !.pc = "loop"]
    /\ UNCHANGED <<retryOps, maxRetries>>
    /\ UNCHANGED <<loaderVars, treeVars, refreshVars, lazyVars, fieldVars, evalVars, ensureVars, configVars, normVars, otherVars>>
    /\ UNCHANGED <<envVars, widgetVars, managerVars, tierVars, stores, taskVars,
                   waitVars, cacheTaskVars, histVars>>

\* a loop head that returns the last error as the call's value when the
\* budget is used up
RetryAttempt_Mut ==
    /\ retry.pc = "loop"
    /\ IF retry.i >= maxRetries
       THEN retry' = [retry EXCEPT !.pc = "returned", !.ret = retry.lastError]
       ELSE IF retryOps[retry.i + 1] = 0
       THEN retry' = [retry EXCEPT !.pc = "returned", !.calls = @ + 1,
                                   !.ret = RetryValue(retry.i + 1)]
       ELSE retry' = [retry EXCEPT !.pc = "waiting", !.calls = @ + 1,
                                   !.lastError = retryOps[retry.i + 1],
                                   !.waits = Append(@, RETRY_DELAY * Pow2(retry.i))]
    /\ UNCHANGED <<retryOps, maxRetries>>
    /\ UNCHANGED <<loaderVars, treeVars, refreshVars, lazyVars, fieldVars, evalVars, ensureVars, configVars, normVars, otherVars>>
    /\ UNCHANGED <<envVars, widgetVars, managerVars, tierVars, stores, taskVars,
                   waitVars, cacheTaskVars, histVars>>

\* `for (let i = 0; i < maxRetries; i++) { try { return await operation() }
\* catch (error) { lastError = error; await new Promise((resolve) =>
\* setTimeout(resolve, delay * Math.pow(2, i))) ... } } throw lastError`:
\* the loop head, one invocation, and the timer set when it threw
RetryAttempt ==
    /\ retry.pc = "loop"
    /\ IF retry.i >= maxRetries
       THEN retry' = [retry EXCEPT !.pc = "threw"]
       ELSE IF retryOps[retry.i + 1] = 0
       THEN retry' = [retry EXCEPT !.pc = "returned", !.calls = @ + 1,
                                   !.ret = RetryValue(retry.i + 1)]
       ELSE retry' = [retry EXCEPT !.pc = "waiting", !.calls = @ + 1,
                                   !.lastError = retryOps[retry.i + 1],
                                   !.waits = Append(@, RETRY_DELAY * Pow2(retry.i))]
    /\ UNCHANGED <<retryOps, maxRetries>>
    /\ UNCHANGED <<loaderVars, treeVars, refreshVars, lazyVars, fieldVars, evalVars, ensureVars, configVars, normVars, otherVars>>
    /\ UNCHANGED <<envVars, widgetVars, managerVars, tierVars, stores, taskVars,
                   waitVars, cacheTaskVars, histVars>>

\* the timer fires: logger.warn, `i++`
RetryWaitDone ==
    /\ retry.pc = "waiting"
    /\ retry' = [retry EXCEPT !.pc = "loop", !.i = @ + 1]
    /\ UNCHANGED <<retryOps, maxRetries>>
    /\ UNCHANGED <<loaderVars, treeVars, refreshVars, lazyVars, fieldVars, evalVars, ensureVars, configVars, normVars, otherVars>>
    /\ UNCHANGED <<envVars, widgetVars, managerVars, tierVars, stores, taskVars,
                   waitVars, cacheTaskVars, histVars>>

\* any operation, any budget up to the default
RetryInit ==
    /\ CommonInit
    /\ OtherIdle
    /\ NormIdle
    /\ ConfigIdle
    /\ LoaderIdle
    /\ TreeIdle
    /\ RefreshIdle
    /\ FieldIdle
    /\ EvalIdle
    /\ retryOps \in [1..MAX_RETRIES -> {0} \cup RetryErrors]
    /\ maxRetries \in 0..MAX_RETRIES
    /\ retry = NoRetry
    /\ dev = FALSE
    /\ fault = "none"
    /\ sources = [k \in Sources |-> 1]
    /\ widgetsInitPromise = IF browser THEN "null" ELSE "pending"
    /\ initializationPromise = IF browser THEN "null" ELSE "pending"
    /\ ipc = IF browser THEN "none" ELSE "widgets"
    /\ cache = [g \in Groups |-> <<>>]
    /\ redisKV = [k \in TierKeys |-> NoEntry]
    /\ origin = [g \in Groups |-> [k \in OpKeys |-> NoOrigin]]
    /\ inserted = [g \in Groups |-> <<>>]
    /\ pure = [g \in Groups |-> TRUE]

RetryNext == RetryCall \/ RetryAttempt \/ RetryWaitDone

RetrySpec == RetryInit /\ [][RetryNext]_vars

\* the invocations 1..n of the operation all throw
AllFail(n) == \A j \in 1..n : retryOps[j] # 0

\* C32: retryOperation invokes the operation at most maxRetries times; it
\* returns the value of the first invocation that succeeds and invokes
\* nothing after it; when maxRetries invocations have failed it throws the
\* error of the last one, and it returns no value when all of them failed.
C32_RetryBudget ==
    /\ retry.calls <= maxRetries
    /\ retry.pc = "returned" =>
           /\ retry.calls >= 1
           /\ retryOps[retry.calls] = 0
           /\ AllFail(retry.calls - 1)
           /\ retry.ret = RetryValue(retry.calls)
    /\ retry.pc = "threw" =>
           /\ retry.calls = maxRetries
           /\ AllFail(maxRetries)
           /\ retry.ret = NULL
           /\ maxRetries >= 1 => retry.lastError = retryOps[maxRetries]
    /\ AllFail(maxRetries) => retry.pc # "returned"

\* a call that returned the value of its third invocation
C32_Witness ==
    /\ retry.pc = "returned"
    /\ retry.calls = MAX_RETRIES
    /\ retry.ret = RetryValue(MAX_RETRIES)

\* a call that threw the error of its last invocation
C32_WitnessThrew ==
    /\ retry.pc = "threw"
    /\ retry.calls = MAX_RETRIES
    /\ retry.lastError = 2

\* C33: the wait after the i-th failed attempt (from 0) is RETRY_DELAY *
\* 2^i, and there are waits only between two attempts: none before the
\* first attempt and none between the last failed attempt and the throw.
C33_ExponentialBackoff ==
    /\ \A j \in 1..Len(retry.waits) : retry.waits[j] = RETRY_DELAY * Pow2(j - 1)
    /\ retry.calls = 0 => retry.waits = <<>>
    /\ retry.pc \in {"returned", "threw"} /\ retry.calls >= 1 =>
           Len(retry.waits) = retry.calls - 1

\* ---------------------------------------------------------------------
\* createCategories with entries in categoryConfig

NumConfigDefs == 2

\* the paths categoryConfig may have an entry for
ConfigPaths == {<<"a">>, <<"a", "x">>}

\* as TreeInit, with any categoryConfig over ConfigPaths
ConfigInit ==
    /\ CommonInit
    /\ OtherIdle
    /\ NormIdle
    /\ RetryIdle
    /\ LoaderIdle
    /\ RefreshIdle
    /\ FieldIdle
    /\ EvalIdle
    /\ overridden \in SUBSET ConfigPaths
    /\ dev = FALSE
    /\ fault = "none"
    /\ sources = [k \in Sources |-> 1]
    /\ \E n \in 0..NumConfigDefs :
         \E ps \in [1..n -> TreePaths] :
           \E ics \in [1..n -> TreeIcons] :
             treeIn = [i \in 1..n |-> Schema(i, ps[i], ics[i])]
    /\ structure = NotBuilt
    /\ widgetsInitPromise = IF browser THEN "null" ELSE "pending"
    /\ initializationPromise = IF browser THEN "null" ELSE "pending"
    /\ ipc = IF browser THEN "none" ELSE "widgets"
    /\ cache = [g \in Groups |-> <<>>]
    /\ redisKV = [k \in TierKeys |-> NoEntry]
    /\ origin = [g \in Groups |-> [k \in OpKeys |-> NoOrigin]]
    /\ inserted = [g \in Groups |-> <<>>]
    /\ pure = [g \in Groups |-> TRUE]

ConfigNext == CreateCategoriesRun

ConfigSpec == ConfigInit /\ [][ConfigNext]_vars

\* the order a node of the structure carries, NULL when it carries none
OrderOf(node) == IF "order" \in DOMAIN node THEN node.order ELSE NULL

\* the icons of the definitions attached to a node that have one
OwnIcons(node) ==
    {node.collections[i].icon : i \in {j \in 1..Len(node.collections) :
                                          node.collections[j].icon # ""}}

\* the icon of a node is that of a definition ending there when one has an
\* icon, else the configured or default one
IconAssigned(node) ==
    IF OwnIcons(node) # {} THEN node.icon \in OwnIcons(node)
    ELSE node.icon = ConfigFor(node.path, Len(node.path) - 1).icon

\* C34: every node of the built structure has the icon and the order of
\* the categoryConfig entry of its path when there is one, else the default
\* icon of its depth and order 999; a node that ends the path of a
\* definition with an icon has that icon.
C34_IconAndOrder ==
    structure.built =>
        \A j \in 1..Len(structure.nodes) :
            /\ IconAssigned(structure.nodes[j])
            /\ OrderOf(structure.nodes[j]) =
                   ConfigFor(structure.nodes[j].path, Len(structure.nodes[j].path) - 1).order

\* ---------------------------------------------------------------------
\* the processed schema of both compile paths

\* base names of source files
FileNames == {"Posts", "menu"}

\* `name.toLowerCase()`
ToLowerCase(s) == IF s = "Posts" THEN "posts" ELSE IF s = "Other" THEN "other" ELSE s

\* `a || b` on strings: the empty (or missing) string is falsy
OrElse(a, b) == IF a # "" THEN a ELSE b

\* the schemas a source can evaluate to: every property present or not
Schemas ==
    [id : {NULL, 7}, name : {"", "Other"}, label : {"", "A label"},
     slug : {"", "a-slug"}, icon : {"", "mdi:star"}, description : {"", "text"},
     fields : {<<>>, <<PlainField(1)>>}, hasFields : BOOLEAN]

\* loadCollections in dev mode: `if (!schema.fields) schema.fields = [];
\* processed = { ...schema, id: schema.id || createRandomID(), name, icon:
\* schema.icon || 'iconoir:info-empty', ..., fields: schema.fields || [],
\* ..., description: schema.description || '', label: schema.label || name,
\* slug: schema.slug || name.toLowerCase() }`
DevProcessed(fileName, schema, randomId) ==
    [id |-> IF schema.id # NULL THEN schema.id ELSE randomId,
     name |-> fileName,
     label |-> OrElse(schema.label, fileName),
     slug |-> OrElse(schema.slug, ToLowerCase(fileName)),
     icon |-> OrElse(schema.icon, "iconoir:info-empty"),
     description |-> OrElse(schema.description, ""),
     fields |-> IF schema.hasFields THEN schema.fields ELSE <<>>]

\* processCollectionFile: `processedSchema = { id: baseSchema.id ||
\* createRandomID(), name: name, label: baseSchema.label || name, slug:
\* baseSchema.slug || name.toLowerCase(), icon: baseSchema.icon ||
\* 'iconoir:info-empty', description: baseSchema.description || '', ...,
\* fields: validFields }`
FileProcessed(fileName, schema, randomId) ==
    [id |-> IF schema.id # NULL THEN schema.id ELSE randomId,
     name |-> fileName,
     label |-> OrElse(schema.label, fileName),
     slug |-> OrElse(schema.slug, ToLowerCase(fileName)),
     icon |-> OrElse(schema.icon, "iconoir:info-empty"),
     description |-> OrElse(schema.description, ""),
     fields |-> ValidFields(IF schema.hasFields THEN schema.fields ELSE <<>>)]

\* one schema becomes a definition
ProcessSchemaRun(randomId) ==
    /\ normOut = <<>>
    /\ normOut' = <<IF normIn.mode = "dev"
                    THEN DevProcessed(normIn.fileName, normIn.schema, randomId)
                    ELSE FileProcessed(normIn.fileName, normIn.schema, randomId)>>
    /\ UNCHANGED normIn
    /\ UNCHANGED <<loaderVars, treeVars, refreshVars, lazyVars, fieldVars, evalVars, ensureVars, retryVars, configVars, otherVars>>
    /\ UNCHANGED <<envVars, widgetVars, managerVars, tierVars, stores, taskVars,
                   waitVars, cacheTaskVars, histVars>>

\* any schema in any file, on either compile path
NormInit ==
    /\ CommonInit
    /\ OtherIdle
    /\ RetryIdle
    /\ ConfigIdle
    /\ LoaderIdle
    /\ TreeIdle
    /\ RefreshIdle
    /\ FieldIdle
    /\ EvalIdle
    /\ normIn \in [mode : {"dev", "file"}, fileName : FileNames,
                   schema : {s \in Schemas : ~s.hasFields => s.fields = <<>>}]
    /\ normOut = <<>>
    /\ dev = (normIn.mode = "dev")
    /\ fault = "none"
    /\ sources = [k \in Sources |-> 1]
    /\ widgetsInitPromise = IF browser THEN "null" ELSE "pending"
    /\ initializationPromise = IF browser THEN "null" ELSE "pending"
    /\ ipc = IF browser THEN "none" ELSE "widgets"
    /\ cache = [g \in Groups |-> <<>>]
    /\ redisKV = [k \in TierKeys |-> NoEntry]
    /\ origin = [g \in Groups |-> [k \in OpKeys |-> NoOrigin]]
    /\ inserted = [g \in Groups |-> <<>>]
    /\ pure = [g \in Groups |-> TRUE]

NormNext == \E randomId \in IdSet : ProcessSchemaRun(randomId)

NormSpec == NormInit /\ [][NormNext]_vars

\* everything the definition takes from the schema or defaults, its name
\* apart
DefaultsApplied(d, fileName, schema) ==
    /\ d.id # NULL
    /\ schema.id # NULL => d.id = schema.id
    /\ schema.id = NULL => d.id \in IdSet
    /\ d.label = (IF schema.label # "" THEN schema.label ELSE fileName)
    /\ d.slug = (IF schema.slug # "" THEN schema.slug ELSE ToLowerCase(fileName))
    /\ d.icon = (IF schema.icon # "" THEN schema.icon ELSE "iconoir:info-empty")
    /\ d.description = schema.description
    /\ ~schema.hasFields => d.fields = <<>>

\* C35: a definition has the id of its source or a generated one, the name
\* its source declares or else the base name of its file, label and slug of
\* the source or else the file's name (lower-cased for the slug), the icon
\* of the source or the default one, the source's description or the empty
\* one, and the empty field list when the source declares no fields.
C35_Normalization ==
    normOut # <<>> =>
        /\ DefaultsApplied(normOut[1], normIn.fileName, normIn.schema)
        /\ normOut[1].name = (IF normIn.schema.name # "" THEN normIn.schema.name
                              ELSE normIn.fileName)

\* C36: no step lowers a counter of collectionAccessCount; a
\* lazyLoadCollection(name) that returns a definition adds exactly 1 to the
\* counter of name and leaves the other counters, and one that throws or
\* returns null leaves every counter.
C36_AccessCounter ==
    [][/\ \A k \in Sources : collectionAccessCount'[k] >= collectionAccessCount[k]
       /\ \A n \in Sources :
            LazyCall(n) =>
                IF lazyOut'.status = "returned" /\ lazyOut'.ret # NULL
                THEN collectionAccessCount' =
                         [collectionAccessCount EXCEPT ![n] = collectionAccessCount[n] + 1]
                ELSE collectionAccessCount' = collectionAccessCount]_vars

\* the second call for a name was a cache hit and counted as well
C36_Witness ==
    /\ lazyOut.status = "returned"
    /\ lazyOut.ret # NULL
    /\ collectionAccessCount[lazyOut.name] = 2
    /\ reads[lazyOut.name] = 1

\* ---------------------------------------------------------------------
\* the lifecycle of the manager

\* the state of the manager as its fields tell it
Lifecycle ==
    IF initialized THEN "Ready"
    ELSE IF initializationPromise = "rejected" THEN "Failed"
    ELSE IF initializationPromise = "pending" THEN "Initializing"
    ELSE "Uninitialized"

\* the steps of the lifecycle
Forward ==
    {<<"Uninitialized", "Initializing">>, <<"Initializing", "Ready">>,
     <<"Initializing", "Failed">>}

\* C37: the manager's state changes only from Uninitialized to
\* Initializing, from Initializing to Ready and from Initializing to
\* Failed; no step takes a Ready manager out of Ready, and initialize()
\* called on a Ready manager begins no load pass.
C37_LifecycleForward ==
    [][/\ Lifecycle' # Lifecycle => <<Lifecycle, Lifecycle'>> \in Forward
       /\ initialized => initialized'
       /\ InitializeOnReady => passCount' = passCount /\ initPasses' = initPasses]_vars

\* a Ready manager on which an updateCollections call has thrown
C37_Witness ==
    /\ Lifecycle = "Ready"
    /\ \E p \in Updaters : upc[p] = "threw"
    /\ passCount >= 2

\* ---------------------------------------------------------------------
\* updateCollections after lazyLoadCollection calls

\* the file of `config/collections/${name}.ts`
LazyFile(n) == IF n = 1 THEN "one.ts" ELSE "two.ts"

\* `path: filePath` of a definition processCollectionFile made for
\* lazyLoadCollection, split at '/'
LazyPath(n) == <<"config", "collections", LazyFile(n)>>

\* `Array.from(this.collectionCache.values()).map((entry) => entry.value)`
\* with name, path and icon of each definition: the entries a load pass
\* stored and the entries lazyLoadCollection stored under collection_<name>
CachedSchemas(c) ==
    [i \in 1..Len(c) |->
        IF c[i].key \in LazyKeys
        THEN Schema(c[i].key - LazyPrefix, LazyPath(c[i].key - LazyPrefix),
                    "iconoir:info-empty")
        ELSE Schema(c[i].key, PathOf(c[i].key), "iconoir:info-empty")]

\* lazyLoadCollection and source changes between two updateCollections
\* calls
AgreeNext ==
    \/ UpdateCollectionsRun
    \/ \E n \in Sources : LazyLoadCollection(n)
    \/ \E k \in Sources, v \in {0} \cup Versions : SourceChange(k, v)

AgreeSpec == RefreshInit /\ [][AgreeNext]_vars

\* the number of attachments of a definition named n in the nodes
TimesAttached(nodes, n) ==
    Cardinality({ji \in (1..Len(nodes)) \X (1..MaxDefs + Cardinality(LazyKeys)) :
                    /\ ji[2] <= Len(nodes[ji[1]].collections)
                    /\ nodes[ji[1]].collections[ji[2]].name = n})

\* each definition of cols is attached once in nodes, and nothing else is
\* attached
Agree(cols, nodes) ==
    /\ \A i \in 1..Len(cols) : TimesAttached(nodes, cols[i].name) = 1
    /\ \A j \in 1..Len(nodes) :
          \A i \in 1..Len(nodes[j].collections) :
              \E m \in 1..Len(cols) : cols[m].name = nodes[j].collections[i].name

\* C38: when an updateCollections call has built a category structure and
\* returned, every definition of getCollectionData().collections is
\* attached exactly once in that structure and every attached definition
\* is one of them.
C38_TreeAgreesWithDefinitions ==
    [][(rpc' # rpc /\ ~(Tier2 /\ RedisListHit(redisCats))) =>
          Agree(loadedCollections'.list,
                CategoryStructure(CachedSchemas(cache'["collectionCache"]), <<>>))]_vars

\* ---------------------------------------------------------------------
\* createCategories and the order of collectionCache

\* the orders in which n definitions can have entered the cache
Orders(n) == {f \in [1..n -> 1..n] : \A i, j \in 1..n : f[i] = f[j] => i = j}

\* the list in another order
Reordered(list, f) == [i \in 1..Len(list) |-> list[f[i]]]

\* a node without its place in the creation order: name, nesting (its
\* path), leaf flag, icon and the set of attached definitions
NodeShape(node) ==
    [path |-> node.path, name |-> node.name, isCollection |-> node.isCollection,
     icon |-> node.icon,
     collections |-> {node.collections[i] : i \in 1..Len(node.collections)}]

Shape(nodes) == {NodeShape(nodes[j]) : j \in 1..Len(nodes)}

\* C39: the structure createCategories builds from a set of definitions
\* (node names, nesting, leaf flags, icons, attached definitions) is the
\* same for every order in which the definitions are walked.
C39_OrderIndependent ==
    structure.built =>
        \A f \in Orders(Len(treeIn)) :
            Shape(CategoryStructure(Reordered(treeIn, f), <<>>)) = Shape(structure.nodes)

\* ---------------------------------------------------------------------
\* getCacheValue while another instance changes tier 2

\* another instance stores value v under key k of tier 2 (its own
\* setCacheValue): the entry is replaced
OtherInstanceSets(k, v) ==
    /\ Tier2
    /\ other.kind = "none"
    /\ RedisRead(redisKV[k]) # NULL
    /\ RedisRead(redisKV[k]) # v
    /\ redisKV' = [redisKV EXCEPT ![k] = RedisEntry(v, REDIS_TTL)]
    /\ origin' = ForgetKey(origin, k)
    /\ other' = [kind |-> "replaced", key |-> k, value |-> v, at |-> now,
                 expiresAt |-> RedisEntry(v, REDIS_TTL).expiresAt]
    /\ UNCHANGED <<cache, redisAll, redisCats, passCount, initPasses, inserted, pure>>
    /\ UNCHANGED <<loaderVars, treeVars, refreshVars, lazyVars, fieldVars, evalVars,
                   ensureVars, retryVars, configVars, normVars>>
    /\ UNCHANGED <<envVars, widgetVars, managerVars, stores, taskVars, waitVars, cacheTaskVars>>

\* another instance clears key k of tier 2 (its own clearCacheValue)
OtherInstanceClears(k) ==
    /\ Tier2
    /\ other.kind = "none"
    /\ RedisRead(redisKV[k]) # NULL
    /\ redisKV' = [redisKV EXCEPT ![k] = NoEntry]
    /\ origin' = ForgetKey(origin, k)
    /\ other' = [kind |-> "deleted", key |-> k, value |-> NULL, at |-> now, expiresAt |-> 0]
    /\ UNCHANGED <<cache, redisAll, redisCats, passCount, initPasses, inserted, pure>>
    /\ UNCHANGED <<loaderVars, treeVars, refreshVars, lazyVars, fieldVars, evalVars,
                   ensureVars, retryVars, configVars, normVars>>
    /\ UNCHANGED <<envVars, widgetVars, managerVars, stores, taskVars, waitVars, cacheTaskVars>>

\* a server with a working tier 2 whose entries were stored at time 0
ConvergeInit ==
    /\ CacheInit
    /\ Tier2
    /\ fault = "none"

\* this instance only reads: no local setCacheValue or clearCacheValue
ConvergeNext ==
    \/ \E d \in TickSteps : Tick(d)
    \/ \E t \in CacheTasks, g \in OpGroups, k \in OpKeys : GetCacheValueCall(t, g, k)
    \/ \E t \in CacheTasks : GetCacheValueResume(t)
    \/ \E k \in OpKeys, v \in Values : OtherInstanceSets(k, v)
    \/ \E k \in OpKeys : OtherInstanceClears(k)

ConvergeSpec == ConvergeInit /\ [][ConvergeNext]_vars

\* a getCacheValue of task t for the key the other instance changed, called
\* after that change, ends in this step
GetAfterChangeEnds(t) ==
    /\ ctask[t].pc = "get"
    /\ ctask'[t].pc = "idle"
    /\ other.kind # "none"
    /\ ctask[t].key = other.key
    /\ ctask[t].at > other.at

\* C40: a getCacheValue called after another instance replaced the tier-2
\* value of its key returns the replacement (while tier 2 holds it); one
\* called after another instance deleted the tier-2 value returns nothing
\* once more than CACHE_TTL has passed since the deletion; neither throws.
C40_ConvergesAfterOtherInstance ==
    [][\A t \in CacheTasks :
          GetAfterChangeEnds(t) =>
              /\ ~last'.threw
              /\ (other.kind = "replaced" /\ ctask[t].at < other.expiresAt) =>
                     last'.ret = other.value
              /\ (other.kind = "deleted" /\ now > other.at + CACHE_TTL) =>
                     last'.ret = NULL]_vars

====
